---------------------------- MODULE Spec2Model ----------------------------
(***************************************************************************)
(* A model of the terminal Markdown renderer                               *)
(* (packages/opencode/src/cli/markdown-renderer.ts) and of the CLI theme   *)
(* loader (packages/opencode/src/cli/theme-loader.ts).                     *)
(*                                                                         *)
(* Text is a sequence of characters; a character is a one-element TLA+     *)
(* string.  Characters that cannot be written in a TLA+ string literal are *)
(* named: "ESC" is U+001B, "LF" is the line feed, "BT" is the backtick,    *)
(* "BS" is the backslash, "DQ" the double quote, "CJK" one wide character  *)
(* of the Basic Multilingual Plane (one code unit, two terminal columns),  *)
(* "u250c", "u2500", ... are the box-drawing characters of Box.            *)
(***************************************************************************)
EXTENDS Integers, Sequences, FiniteSets, TLC

VARIABLES
    call,             \* the exported function that was called
    pc,               \* position of the running call
    error,            \* "none", or the exception the call raised
    lines,            \* md.split("\n"): the document's lines
    cols,             \* options.cols
    colors,           \* options.colors
    tuiTheme,         \* options.theme / the tuiTheme argument
    theme,            \* renderMarkdownThemedStyled: theme converted by toIntRGBA
    i,                \* index of the line being scanned (1-based)
    inCodeBlock,      \* scan state: inside a code fence
    codeBlockLang,    \* scan state: language tag of the open fence
    codeBlockContent, \* renderMarkdownSimple: lines accumulated in a fence
    inTable,          \* scan state: inside a table
    tableLines,       \* scan state: accumulated table lines
    chunks,           \* the TextChunk sequence built so far
    result,           \* renderMarkdownSimple: result[]
    output,           \* the string a call returned / ansiToStyledText's input
    colWidths,        \* renderTableThemed: column widths
    THEMES,           \* theme-loader: theme name -> theme JSON
    themeName,        \* loadTheme argument
    mode,             \* loadTheme argument
    loaded,           \* loadTheme result
    lastIndex,        \* ansiToStyledText: lastIndex (1-based)
    fg,               \* ansiToStyledText: current foreground
    bg,               \* ansiToStyledText: current background
    attributes,       \* ansiToStyledText: current attribute bits
    styledText,       \* ansiToStyledText: the chunks parsed so far
    str,              \* the string argument of a call on one string
    argColor,         \* the defaultColor argument of renderInlineThemedWithDefault
    argAttrs,         \* the defaultAttrs argument of renderInlineThemedWithDefault
    stripped,         \* what stripAnsi(str) returned
    visible,          \* what visibleWidth(str) returned
    strippedVisible,  \* what visibleWidth(stripped) returned
    currentText,      \* parseMarkdownSegments: currentText
    segments          \* parseMarkdownSegments: segments

renderVars == <<lines, cols, colors, tuiTheme>>
scanVars == <<i, inCodeBlock, codeBlockLang, codeBlockContent, inTable, tableLines,
              result>>
loaderVars == <<THEMES, themeName, mode, loaded>>
parserVars == <<lastIndex, fg, bg, attributes, styledText>>
stringVars == <<str, argColor, argAttrs, stripped, visible, strippedVisible>>
segmentVars == <<currentText, segments>>

vars == <<call, pc, error, lines, cols, colors, tuiTheme, theme, i, inCodeBlock,
          codeBlockLang, codeBlockContent, inTable, tableLines, chunks,
          result, output, colWidths, THEMES, themeName, mode, loaded,
          lastIndex, fg, bg, attributes, styledText, str, argColor,
          argAttrs, stripped, visible, strippedVisible, currentText, segments>>

\* the value of an absent object (a color, a theme, a property)
Undefined == [undefined |-> TRUE]

\* an omitted string argument
Absent == "absent"

(***************************************************************************)
(* The types of the program's values                                       *)
(***************************************************************************)
\* string
Text == Seq(STRING)

\* string[]
Texts == Seq(Text)

\* string[][]
TextTable == Seq(Texts)

\* number[]
IntSeq == Seq(Int)

IntSet == SUBSET Int

CharSet == SUBSET STRING

\* RGBA, TuiRGBA
RGBA == [r : Int, g : Int, b : Int, a : Int]

\* fg?: RGBA, bg?: RGBA
Color == RGBA \cup {Undefined}

\* the keys of MarkdownTheme
RoleList == <<"text", "textMuted", "accent", "primary", "border", "background",
              "backgroundPanel", "backgroundElement", "markdownText",
              "markdownHeading", "markdownLink", "markdownLinkText", "markdownCode",
              "markdownCodeBlock", "markdownBlockQuote", "markdownEmph",
              "markdownStrong", "markdownListItem", "markdownListEnumeration",
              "markdownHorizontalRule", "diffAdded", "diffRemoved">>

Roles == {RoleList[k] : k \in 1..Len(RoleList)}

\* MarkdownTheme with every role present
ThemeT == [Roles -> RGBA]

\* TextChunk
ChunkT == [text : Text, fg : Color, bg : Color, attributes : Int]

\* TextChunk[]
ChunkSeq == Seq(ChunkT)

ChunkTable == Seq(ChunkSeq)

(***************************************************************************)
(* Strings                                                                 *)
(***************************************************************************)
ESC == "ESC"
LF == "LF"
CJK == "CJK"
BT == "BT"
BS == "BS"
DQ == "DQ"

Rep(c, n) == [k \in 1..n |-> c]

Max(a, b) == IF a >= b THEN a ELSE b
Min(a, b) == IF a <= b THEN a ELSE b
SetMin[S \in IntSet] == CHOOSE x \in S : \A y \in S : x <= y
SetMax[S \in IntSet] == CHOOSE x \in S : \A y \in S : y <= x

\* Math.max(...s, 0) of a sequence of naturals
MaxOf[s \in IntSeq] == IF s = <<>> THEN 0 ELSE SetMax[{s[k] : k \in 1..Len(s)}]

\* the elements of a set of integers in increasing order
Sorted[S \in IntSet] == [n \in 1..Cardinality(S) |->
                 CHOOSE k \in S : Cardinality({j \in S : j < k}) = n - 1]

\* the concatenation of ss[a..b]; halving keeps the evaluation shallow
ConcatRange[ss \in Texts, a \in Int, b \in Int] ==
    IF a > b THEN <<>>
    ELSE IF a = b THEN ss[a]
    ELSE ConcatRange[ss, a, (a + b) \div 2] \o ConcatRange[ss, (a + b) \div 2 + 1, b]

Concat[ss \in Texts] == ConcatRange[ss, 1, Len(ss)]

\* the same for lists of chunks
ChunksRange[css \in ChunkTable, a \in Int, b \in Int] ==
    IF a > b THEN <<>>
    ELSE IF a = b THEN css[a]
    ELSE ChunksRange[css, a, (a + b) \div 2] \o ChunksRange[css, (a + b) \div 2 + 1, b]

ConcatChunks[css \in ChunkTable] == ChunksRange[css, 1, Len(css)]

\* ss.join(sep)
Join[ss \in Texts, sep \in Text] ==
    Concat[[k \in 1..Len(ss) |-> IF k = 1 THEN ss[k] ELSE sep \o ss[k]]]

Slice[s \in Text, a \in Int, b \in Int] == IF a > b THEN <<>> ELSE SubSeq(s, Max(a, 1), Min(b, Len(s)))
From[s \in Text, a \in Int] == Slice[s, a, Len(s)]

\* the pieces of s between the positions of D (in increasing order), D left out
SplitAt[s \in Text, D \in IntSet] ==
    LET d == Sorted[D]
    IN [j \in 1..(Len(d) + 1) |->
           Slice[s, (IF j = 1 THEN 0 ELSE d[j - 1]) + 1,
                    (IF j > Len(d) THEN Len(s) + 1 ELSE d[j]) - 1]]

\* the characters of s at the positions of K, in order
Pick[s \in Text, K \in IntSet] == LET d == Sorted[K] IN [n \in 1..Len(d) |-> s[d[n]]]

HasAt[s \in Text, p \in Int, d \in Text] ==
    /\ p >= 1
    /\ p + Len(d) - 1 <= Len(s)
    /\ \A k \in 1..Len(d) : s[p + k - 1] = d[k]

startsWith[s \in Text, d \in Text] == HasAt[s, 1, d]
endsWith[s \in Text, d \in Text] == HasAt[s, Len(s) - Len(d) + 1, d]

IsSpace(c) == c = " "
IsDigit(c) == c \in {"0", "1", "2", "3", "4", "5", "6", "7", "8", "9"}

\* number of leading / trailing whitespace characters
LeadSpaces[s \in Text] ==
    IF \A k \in 1..Len(s) : IsSpace(s[k]) THEN Len(s)
    ELSE SetMin[{k \in 1..Len(s) : ~IsSpace(s[k])}] - 1
TrailSpaces[s \in Text] ==
    IF \A k \in 1..Len(s) : IsSpace(s[k]) THEN Len(s)
    ELSE Len(s) - SetMax[{k \in 1..Len(s) : ~IsSpace(s[k])}]

trimEnd[s \in Text] == Slice[s, 1, Len(s) - TrailSpaces[s]]
trim[s \in Text] == IF LeadSpaces[s] = Len(s) THEN <<>>
           ELSE Slice[s, LeadSpaces[s] + 1, Len(s) - TrailSpaces[s]]

\* first position >= p where character c stands, 0 if none
IndexOfChar[s \in Text, c \in STRING, p \in Int] ==
    IF \E k \in Max(p, 1)..Len(s) : s[k] = c
    THEN SetMin[{k \in Max(p, 1)..Len(s) : s[k] = c}]
    ELSE 0

\* Bun.stringWidth: terminal columns of a string (wide characters count 2,
\* control characters 0, every other character 1)
stringWidth[s \in Text] ==
    Len(s) + Cardinality({k \in 1..Len(s) : s[k] = CJK})
           - Cardinality({k \in 1..Len(s) : s[k] \in {ESC, LF}})

(***************************************************************************)
(* Text attributes and chunks                                              *)
(***************************************************************************)
Attr == [BOLD |-> 1, DIM |-> 2, ITALIC |-> 4, UNDERLINE |-> 8, BLINK |-> 16,
         INVERSE |-> 32, HIDDEN |-> 64, STRIKETHROUGH |-> 128]

AttrBits == {1, 2, 4, 8, 16, 32, 64, 128}

\* attributes & bit
HasBit(a, bit) == (a \div bit) % 2 = 1

Bit(a, bit) == IF HasBit(a, bit) THEN bit ELSE 0

\* a | b
BitOr(a, b) ==
    LET or(bit) == IF HasBit(a, bit) \/ HasBit(b, bit) THEN bit ELSE 0
    IN or(1) + or(2) + or(4) + or(8) + or(16) + or(32) + or(64) + or(128)

\* a TextChunk
Chunk(text, color, bgColor, attrs) ==
    [text |-> text, fg |-> color, bg |-> bgColor, attributes |-> attrs]

\* the addChunk closures push a chunk only when its text is not empty: what
\* one call appends to chunks
addChunk[t \in Text, color \in Color, attrs \in Int] ==
    IF t = <<>> THEN <<>> ELSE <<Chunk(t, color, Undefined, attrs)>>

addChunkWithBg[t \in Text, color \in Color, bgColor \in Color, attrs \in Int] ==
    IF t = <<>> THEN <<>> ELSE <<Chunk(t, color, bgColor, attrs)>>

(***************************************************************************)
(* Regular expressions of the table layout: visibleLength                  *)
(***************************************************************************)
\* positions e >= p where d stands
Occurs[s \in Text, p \in Int, d \in Text] == {e \in p..(Len(s) - Len(d) + 1) : HasAt[s, e, d]}

\* str.replace(/D(.+?)D/g, "$1") from position p on
StripPairFrom[s \in Text, p \in Int, d \in Text] ==
    LET starts == {q \in Occurs[s, p, d] : Occurs[s, q + Len(d) + 1, d] # {}}
    IN IF starts = {} THEN From[s, p]
       ELSE LET q == SetMin[starts]
                e == SetMin[Occurs[s, q + Len(d) + 1, d]]
            IN Slice[s, p, q - 1] \o Slice[s, q + Len(d), e - 1]
                 \o StripPairFrom[s, e + Len(d), d]

StripPair[s \in Text, d \in Text] == StripPairFrom[s, 1, d]

\* /`([^`]+)`/ at q: the position of the closing backtick, 0 if no match
CodeSpanEnd[s \in Text, q \in Int] ==
    IF /\ HasAt[s, q, <<BT>>]
       /\ q + 1 <= Len(s)
       /\ s[q + 1] # BT
    THEN IndexOfChar[s, BT, q + 1]
    ELSE 0

\* str.replace(/`([^`]+)`/g, "$1")
StripCodeFrom[s \in Text, p \in Int] ==
    LET starts == {q \in p..Len(s) : CodeSpanEnd[s, q] # 0}
    IN IF starts = {} THEN From[s, p]
       ELSE LET q == SetMin[starts]
                e == CodeSpanEnd[s, q]
            IN Slice[s, p, q - 1] \o Slice[s, q + 1, e - 1] \o StripCodeFrom[s, e + 1]

\* /\[([^\]]+)\]\(([^)]+)\)/ at q: <<position of "]", position of ")">>, or <<0, 0>>
PlainLinkAt[s \in Text, q \in Int] ==
    IF ~HasAt[s, q, <<"[">>] THEN <<0, 0>>
    ELSE LET e1 == IndexOfChar[s, "]", q + 1]
         IN IF ~(e1 > q + 1 /\ HasAt[s, e1 + 1, <<"(">>]) THEN <<0, 0>>
            ELSE LET e2 == IndexOfChar[s, ")", e1 + 2]
                 IN IF e2 > e1 + 2 THEN <<e1, e2>> ELSE <<0, 0>>

\* str.replace(/\[([^\]]+)\]\(([^)]+)\)/g, "$1 ($2)")
StripLinkFrom[s \in Text, p \in Int] ==
    LET starts == {q \in p..Len(s) : PlainLinkAt[s, q] # <<0, 0>>}
    IN IF starts = {} THEN From[s, p]
       ELSE LET q == SetMin[starts]
                m == PlainLinkAt[s, q]
            IN Slice[s, p, q - 1] \o Slice[s, q + 1, m[1] - 1] \o <<" ", "(">>
                 \o Slice[s, m[1] + 2, m[2] - 1] \o <<")">>
                 \o StripLinkFrom[s, m[2] + 1]

\* renderTableThemed.visibleLength: display width with the markdown syntax stripped
visibleLength[text \in Text] ==
    LET s1 == StripPair[text, <<"*", "*", "*">>]
        s2 == StripPair[s1, <<"*", "*">>]
        s3 == StripPair[s2, <<"*">>]
        s4 == StripCodeFrom[s3, 1]
        s5 == StripPair[s4, <<"~", "~">>]
        s6 == StripLinkFrom[s5, 1]
    IN stringWidth[s6]

(***************************************************************************)
(* renderInlineThemedWithDefault: the inline tokenizer                     *)
(***************************************************************************)
\* a match of inlineRegex: the alternative, its groups, the position after it
MatchT == [alt : Int, g1 : Text, g2 : Text, end : Int]

NoMatch == [alt |-> 0, g1 |-> <<>>, g2 |-> <<>>, end |-> 0]

\* D(content)D at q with the content at least `least` characters long (lazy)
PairAt[s \in Text, q \in Int, d \in Text, least \in Int, alt \in Int] ==
    LET close == Occurs[s, q + Len(d) + least, d]
    IN IF HasAt[s, q, d] /\ close # {}
       THEN LET e == SetMin[close]
            IN [alt |-> alt, g1 |-> Slice[s, q + Len(d), e - 1], g2 |-> <<>>,
                end |-> e + Len(d)]
       ELSE NoMatch

\* a content that may be empty in every alternative (a variant of LeastContent)
LeastContentZero(alt) == 0

\* the shortest content of an alternative: (.*?) in the first, (.+?) in the others
LeastContent(alt) == IF alt = 1 THEN 0 ELSE 1

\* (\*\*\*|___)(.*?)\1
BoldItalicAt[s \in Text, q \in Int] ==
    IF PairAt[s, q, <<"*", "*", "*">>, LeastContent(1), 1] # NoMatch
    THEN PairAt[s, q, <<"*", "*", "*">>, LeastContent(1), 1]
    ELSE PairAt[s, q, <<"_", "_", "_">>, LeastContent(1), 1]

\* `([^`]+)`
CodeAt[s \in Text, q \in Int] ==
    IF CodeSpanEnd[s, q] # 0
    THEN [alt |-> 4, g1 |-> Slice[s, q + 1, CodeSpanEnd[s, q] - 1], g2 |-> <<>>,
          end |-> CodeSpanEnd[s, q] + 1]
    ELSE NoMatch

\* \[([^\]]+)\]\(([^)\s]+)(?:\s+"[^"]*")?\)
LinkAt[s \in Text, q \in Int] ==
    IF ~HasAt[s, q, <<"[">>] THEN NoMatch
    ELSE LET e1 == IndexOfChar[s, "]", q + 1]
             u0 == e1 + 2
             stops == {k \in u0..Len(s) : s[k] = ")" \/ IsSpace(s[k])}
         IN IF ~(e1 > q + 1 /\ HasAt[s, e1 + 1, <<"(">>] /\ stops # {}) THEN NoMatch
            ELSE LET stop == SetMin[stops]
                     m(last) == [alt |-> 5, g1 |-> Slice[s, q + 1, e1 - 1],
                                 g2 |-> Slice[s, u0, stop - 1], end |-> last + 1]
                 IN IF stop = u0 THEN NoMatch
                    ELSE IF s[stop] = ")" THEN m(stop)
                    ELSE LET t == stop + LeadSpaces[From[s, stop]]
                             c == IndexOfChar[s, DQ, t + 1]
                         IN IF /\ HasAt[s, t, <<DQ>>]
                               /\ c # 0
                               /\ HasAt[s, c + 1, <<")">>]
                            THEN m(c + 1)
                            ELSE NoMatch

\* the combined inlineRegex at q: the first alternative that matches there
MatchAt[s \in Text, q \in Int] ==
    IF BoldItalicAt[s, q] # NoMatch THEN BoldItalicAt[s, q]
    ELSE IF PairAt[s, q, <<"*", "*">>, LeastContent(2), 2] # NoMatch
         THEN PairAt[s, q, <<"*", "*">>, LeastContent(2), 2]
    ELSE IF PairAt[s, q, <<"*">>, LeastContent(3), 3] # NoMatch
         THEN PairAt[s, q, <<"*">>, LeastContent(3), 3]
    ELSE IF CodeAt[s, q] # NoMatch THEN CodeAt[s, q]
    ELSE IF LinkAt[s, q] # NoMatch THEN LinkAt[s, q]
    ELSE PairAt[s, q, <<"~", "~">>, LeastContent(6), 6]

\* content.match(/^(.*)?D(.+?)D(.*)$/): <<pre, middle, post>>, or <<>> if no match
Nested[content \in Text, d \in Text] ==
    LET opens == {a \in Occurs[content, 1, d] : Occurs[content, a + Len(d) + 1, d] # {}}
    IN IF opens = {} THEN <<>>
       ELSE LET a == CHOOSE x \in opens : \A y \in opens : y <= x
                e == SetMin[Occurs[content, a + Len(d) + 1, d]]
            IN <<Slice[content, 1, a - 1], Slice[content, a + Len(d), e - 1],
                 From[content, e + Len(d)]>>

\* the chunks one match of inlineRegex appends
MatchChunks[m \in MatchT, th \in ThemeT] ==
    IF m.alt = 1 THEN addChunk[m.g1, th.markdownStrong, BitOr(Attr.BOLD, Attr.ITALIC)]
    ELSE IF m.alt = 2 THEN
        LET n == Nested[m.g1, <<"*">>]
        IN IF n # <<>>
           THEN addChunk[n[1], th.markdownStrong, Attr.BOLD]
                  \o addChunk[n[2], th.markdownStrong, BitOr(Attr.BOLD, Attr.ITALIC)]
                  \o addChunk[n[3], th.markdownStrong, Attr.BOLD]
           ELSE addChunk[m.g1, th.markdownStrong, Attr.BOLD]
    ELSE IF m.alt = 3 THEN
        LET n == Nested[m.g1, <<"*", "*">>]
        IN IF n # <<>>
           THEN addChunk[n[1], th.markdownEmph, Attr.ITALIC]
                  \o addChunk[n[2], th.markdownStrong, BitOr(Attr.BOLD, Attr.ITALIC)]
                  \o addChunk[n[3], th.markdownEmph, Attr.ITALIC]
           ELSE addChunk[m.g1, th.markdownEmph, Attr.ITALIC]
    ELSE IF m.alt = 4 THEN addChunk[m.g1, th.markdownCode, 0]
    ELSE IF m.alt = 5 THEN
        addChunk[m.g1, th.markdownLinkText, Attr.UNDERLINE]
          \o addChunk[<<" ", "(">>, th.markdownText, 0]
          \o addChunk[m.g2, th.markdownLink, Attr.UNDERLINE]
          \o addChunk[<<")">>, th.markdownText, 0]
    ELSE addChunk[m.g1, th.textMuted, Attr.STRIKETHROUGH]

\* the while loop over inlineRegex.exec(text) from lastIndex on, and the
\* remaining text: the chunks appended
InlineFrom[text \in Text, last \in Int, th \in ThemeT, defaultColor \in Color, defaultAttrs \in Int] ==
    LET starts == {q \in last..Len(text) : MatchAt[text, q] # NoMatch}
    IN IF starts = {}
       THEN addChunk[From[text, last], defaultColor, defaultAttrs]
       ELSE LET q == SetMin[starts]
                m == MatchAt[text, q]
            IN addChunk[Slice[text, last, q - 1], defaultColor, defaultAttrs]
                 \o MatchChunks[m, th]
                 \o InlineFrom[text, m.end, th, defaultColor, defaultAttrs]

\* the chunks renderInlineThemedWithDefault appends
renderInlineThemedWithDefault[text \in Text, th \in ThemeT, defaultColor \in Color, defaultAttrs \in Int] ==
    InlineFrom[text, 1, th, defaultColor, defaultAttrs]

renderInlineThemed[text \in Text, th \in ThemeT] ==
    renderInlineThemedWithDefault[text, th, th.markdownText, 0]

(***************************************************************************)
(* renderTableThemed: parsing, wrapping.  The character loops of parseRow  *)
(* and wordWrap are stated by position instead of by iteration.            *)
(***************************************************************************)
Box == [topLeft |-> "u250c", topRight |-> "u2510", bottomLeft |-> "u2514",
        bottomRight |-> "u2518", horizontal |-> "u2500", vertical |-> "u2502",
        leftT |-> "u251c", rightT |-> "u2524", topT |-> "u252c",
        bottomT |-> "u2534", cross |-> "u253c"]

\* parseRow: a pipe is a cell boundary unless a backslash stands before it (the
\* loop consumes a backslash only together with the pipe that follows it)
CellBoundaries[row \in Text] ==
    {k \in 1..Len(row) : row[k] = "|" /\ ~(k > 1 /\ row[k - 1] = BS)}

\* parseRow: an escaped pipe adds a literal pipe and skips the backslash
Unescape[cell \in Text] ==
    Pick[cell, {k \in 1..Len(cell) :
                   ~(cell[k] = BS /\ k < Len(cell) /\ cell[k + 1] = "|")}]

\* cells.slice(1, -1).map((c) => c.trim())
parseRow[row \in Text] ==
    LET cells == SplitAt[row, CellBoundaries[row]]
    IN [k \in 1..Max(Len(cells) - 2, 0) |-> trim[Unescape[cells[k + 1]]]]

\* /^\|[\s\-:|\s]+\|$/.test(line)
isSeparatorLine[line \in Text] ==
    /\ Len(line) >= 3
    /\ line[1] = "|"
    /\ line[Len(line)] = "|"
    /\ \A k \in 2..(Len(line) - 1) : line[k] \in {" ", "-", ":", "|"}

NonEmpty(t) == t # <<>>

\* wordWrap: split into tokens, keeping backtick-quoted sections together; a
\* space splits when an even number of backticks stands before it
Tokenize[text \in Text] ==
    LET seps == {k \in 1..Len(text) :
                    /\ text[k] = " "
                    /\ Cardinality({j \in 1..(k - 1) : text[j] = BT}) % 2 = 0}
        pieces == SplitAt[text, seps]
    IN SelectSeq([n \in 1..(2 * Len(pieces) - 1) |->
                     IF n % 2 = 1 THEN pieces[(n + 1) \div 2] ELSE <<" ">>],
                 NonEmpty)

Quote(isQuoted, part) == IF isQuoted THEN <<BT>> \o part \o <<BT>> ELSE part

\* the loop of breakLongToken from the start of one part on: a part ends after
\* a "." or "-" once it is effectiveMax - 2 long, except at the last character
BreakFrom[inner \in Text, start \in Int, isQuoted \in BOOLEAN, maxLen \in Int] ==
    LET effectiveMax == IF isQuoted THEN maxLen - 2 ELSE maxLen
        breaks == {k \in start..(Len(inner) - 1) :
                      /\ k - start + 1 >= effectiveMax - 2
                      /\ inner[k] \in {".", "-"}}
    IN IF breaks = {}
       THEN IF start <= Len(inner) THEN <<Quote(isQuoted, From[inner, start])>> ELSE <<>>
       ELSE <<Quote(isQuoted, Slice[inner, start, SetMin[breaks]])>>
              \o BreakFrom[inner, SetMin[breaks] + 1, isQuoted, maxLen]

breakLongToken[token \in Text, maxLen \in Int] ==
    IF Len(token) <= maxLen THEN <<token>>
    ELSE LET isQuoted == startsWith[token, <<BT>>] /\ endsWith[token, <<BT>>]
             inner == IF isQuoted THEN Slice[token, 2, Len(token) - 1] ELSE token
         IN BreakFrom[inner, 1, isQuoted, maxLen]

\* wordWrap's currentLine and lines
WrapState == [line : Text, lines : Texts]

\* for (const part of breakLongToken(token, width)) ..., from part k on
PlaceParts[parts \in Texts, k \in Int, st \in WrapState, width \in Int] ==
    IF k > Len(parts) THEN st
    ELSE PlaceParts[parts, k + 1,
             IF visibleLength[st.line] = 0 THEN [st EXCEPT !.line = parts[k]]
             ELSE IF visibleLength[st.line \o parts[k]] <= width
                  THEN [st EXCEPT !.line = st.line \o parts[k]]
             ELSE [line |-> parts[k], lines |-> Append(st.lines, trimEnd[st.line])],
             width]

\* a token at the start of a line: break it if it is too long
PlaceToken[token \in Text, st \in WrapState, width \in Int] ==
    IF visibleLength[token] > width
    THEN PlaceParts[breakLongToken[token, width], 1, st, width]
    ELSE [st EXCEPT !.line = token]

\* for (const token of tokens) ..., from token k on
PlaceTokens[tokens \in Texts, k \in Int, st \in WrapState, width \in Int] ==
    IF k > Len(tokens) THEN st
    ELSE PlaceTokens[tokens, k + 1,
             IF tokens[k] = <<" ">>
             THEN IF visibleLength[st.line] > 0 /\ visibleLength[st.line] < width
                  THEN [st EXCEPT !.line = st.line \o <<" ">>]
                  ELSE st
             ELSE IF visibleLength[st.line] = 0 THEN PlaceToken[tokens[k], st, width]
             ELSE IF visibleLength[st.line \o tokens[k]] <= width
                  THEN [st EXCEPT !.line = st.line \o tokens[k]]
             ELSE PlaceToken[tokens[k],
                             [st EXCEPT !.lines = Append(st.lines, trimEnd[st.line])],
                             width],
             width]

\* if (currentLine) lines.push(currentLine.trimEnd()); lines.length > 0 ? lines : [""]
FinishWrap[st \in WrapState] ==
    IF st.line # <<>> THEN Append(st.lines, trimEnd[st.line])
    ELSE IF st.lines # <<>> THEN st.lines
    ELSE << <<>> >>

\* renderTableThemed.wordWrap: the lines a cell is wrapped into
wordWrap[text \in Text, width \in Int] ==
    IF visibleLength[text] <= width THEN <<text>>
    ELSE FinishWrap[PlaceTokens[Tokenize[text], 1, [line |-> <<>>, lines |-> <<>>], width]]

(***************************************************************************)
(* renderTableThemed: column widths, the shrink loop, emission             *)
(***************************************************************************)
\* the floor of the shrink loop
MinColWidth == 10

NotSeparator(line) == ~isSeparatorLine[line]

HeaderRow[tl \in Texts] == parseRow[tl[1]]

\* tableLines.slice(1).filter((line) => !isSeparatorLine(line)).map(parseRow)
DataRows[tl \in Texts] ==
    LET kept == SelectSeq(Tail(tl), NotSeparator)
    IN [k \in 1..Len(kept) |-> parseRow[kept[k]]]

\* r[i] ?? ""
CellOr(r, k) == IF k \in DOMAIN r THEN r[k] ELSE <<>>

\* the natural column widths
NaturalWidths[headerRow \in Texts, dataRows \in TextTable] ==
    [k \in 1..Len(headerRow) |->
        Max(visibleLength[headerRow[k]],
            MaxOf[[r \in 1..Len(dataRows) |-> visibleLength[CellOr(dataRows[r], k)]]])]

\* colWidths.reduce((a, b) => a + b + 3, 1)
calcWidthFrom[cw \in IntSeq, k \in Int] == IF k > Len(cw) THEN 1 ELSE calcWidthFrom[cw, k + 1] + cw[k] + 3

calcWidth[cw \in IntSeq] == calcWidthFrom[cw, 1]

\* a width budget without the padding (a variant of maxWidthOf)
maxWidthNoPadding(c) == c

\* const maxWidth = cols - 4
maxWidthOf(c) == c - 4

\* shrinking whether or not the table fits (a variant of ShrinkCond)
ShrinkCondNoBudget(cw, maxWidth) == \E k \in 1..Len(cw) : cw[k] > MinColWidth

\* the condition of the shrink loop
ShrinkCond(cw, maxWidth) ==
    /\ calcWidth[cw] > maxWidth
    /\ \E k \in 1..Len(cw) : cw[k] > MinColWidth

\* always the first column (a variant of MaxIdx)
FirstIdx(cw) == 1

\* colWidths.indexOf(Math.max(...colWidths))
MaxIdx(cw) == SetMin[{k \in 1..Len(cw) : cw[k] = MaxOf[cw]}]

\* the body of the shrink loop
ShrinkOnce(cw) == [cw EXCEPT ![MaxIdx(cw)] = Max(MinColWidth, cw[MaxIdx(cw)] - 1)]

\* a border line of the grid
BorderLine[cw \in IntSeq, left \in STRING, mid \in STRING, right \in STRING] ==
    <<left>> \o Join[[k \in 1..Len(cw) |-> Rep(Box.horizontal, cw[k] + 2)], <<mid>>]
        \o <<right, LF>>

\* headerRow.forEach((cell, i) => ...): the chunks of header cell k
HeaderCell[cell \in Text, targetWidth \in Int, th \in ThemeT] ==
    addChunk[<<" ">>, th.border, 0]
      \o (IF stringWidth[cell] <= targetWidth
          THEN addChunk[cell \o Rep(" ", targetWidth - stringWidth[cell]),
                        th.markdownHeading, Attr.BOLD]
          ELSE addChunk[Slice[cell, 1, targetWidth], th.markdownHeading, Attr.BOLD])
      \o addChunk[<<" ", Box.vertical>>, th.border, 0]

\* the sum of Bun.stringWidth(c.text) over cellChunks
ChunksWidth[cs \in ChunkSeq, k \in Int] ==
    IF k > Len(cs) THEN 0 ELSE stringWidth[cs[k].text] + ChunksWidth[cs, k + 1]

\* renderCell(text, width, false): the chunks appended
renderCell[text \in Text, width \in Int, th \in ThemeT] ==
    IF text = <<>> THEN addChunk[Rep(" ", width), th.markdownText, 0]
    ELSE LET cellChunks == renderInlineThemed[text, th]
             len == ChunksWidth[cellChunks, 1]
         IN IF len < width
            THEN cellChunks \o addChunk[Rep(" ", width - len), th.markdownText, 0]
            ELSE cellChunks

\* colWidths[i] ?? d
WidthOr(cw, k, d) == IF k \in DOMAIN cw THEN cw[k] ELSE d

\* one line of a data row
RowLine[wrapped \in TextTable, lineIdx \in Int, cw \in IntSeq, th \in ThemeT] ==
    addChunk[<<Box.vertical>>, th.border, 0]
      \o ConcatChunks[[k \in 1..Len(wrapped) |->
                          addChunk[<<" ">>, th.border, 0]
                            \o renderCell[CellOr(wrapped[k], lineIdx),
                                          WidthOr(cw, k, 0), th]
                            \o addChunk[<<" ", Box.vertical>>, th.border, 0]]]
      \o addChunk[<<LF>>, Undefined, 0]

\* row.map((cell, i) => wordWrap(cell, colWidths[i] ?? 10))
WrappedCells[row \in Texts, cw \in IntSeq] ==
    [k \in 1..Len(row) |-> wordWrap[row[k], WidthOr(cw, k, 10)]]

\* for (let lineIdx = 0; lineIdx < maxLines; lineIdx++) ...
RowLines[wrappedCells \in TextTable, cw \in IntSeq, th \in ThemeT] ==
    ConcatChunks[[lineIdx \in 1..MaxOf[[k \in 1..Len(wrappedCells) |-> Len(wrappedCells[k])]] |->
                     RowLine[wrappedCells, lineIdx, cw, th]]]

\* dataRows.forEach((row) => ...): the chunks of one data row
DataRow[row \in Texts, cw \in IntSeq, th \in ThemeT] ==
    RowLines[WrappedCells[row, cw], cw, th]

\* renderTableThemed from the top border on, with the final column widths:
\* the chunks appended
TableEmit[headerRow \in Texts, dataRows \in TextTable, cw \in IntSeq, th \in ThemeT] ==
    addChunk[BorderLine[cw, Box.topLeft, Box.topT, Box.topRight], th.border, 0]
      \o addChunk[<<Box.vertical>>, th.border, 0]
      \o ConcatChunks[[k \in 1..Len(headerRow) |-> HeaderCell[headerRow[k], cw[k], th]]]
      \o addChunk[<<LF>>, Undefined, 0]
      \o addChunk[BorderLine[cw, Box.leftT, Box.cross, Box.rightT], th.border, 0]
      \o ConcatChunks[[r \in 1..Len(dataRows) |-> DataRow[dataRows[r], cw, th]]]
      \o addChunk[BorderLine[cw, Box.bottomLeft, Box.bottomT, Box.bottomRight],
                  th.border, 0]

(***************************************************************************)
(* Themes.  A TuiRGBA component is a float in 0..1; the model keeps it as   *)
(* its numerator over 255 (so 255 is 1.0), which is exact for every value  *)
(* createDefaultCliTheme and hexToRGBA produce.                            *)
(***************************************************************************)
\* createDefaultCliTheme.rgb: { r: r / 255, g: g / 255, b: b / 255, a: 1.0 }
rgb(r, g, b) == [r |-> r, g |-> g, b |-> b, a |-> 255]

createDefaultCliTheme ==
    [text |-> rgb(229, 229, 229), textMuted |-> rgb(102, 102, 102),
     accent |-> rgb(36, 114, 200), primary |-> rgb(36, 114, 200),
     border |-> rgb(102, 102, 102), background |-> rgb(0, 0, 0),
     backgroundPanel |-> rgb(60, 60, 60), backgroundElement |-> rgb(40, 40, 40),
     markdownText |-> rgb(229, 229, 229), markdownHeading |-> rgb(229, 229, 229),
     markdownLink |-> rgb(36, 114, 200), markdownLinkText |-> rgb(17, 168, 205),
     markdownCode |-> rgb(13, 188, 121), markdownCodeBlock |-> rgb(229, 229, 229),
     markdownBlockQuote |-> rgb(229, 229, 16), markdownEmph |-> rgb(229, 229, 16),
     markdownStrong |-> rgb(229, 229, 229), markdownListItem |-> rgb(36, 114, 200),
     markdownListEnumeration |-> rgb(17, 168, 205),
     markdownHorizontalRule |-> rgb(102, 102, 102),
     diffAdded |-> rgb(13, 188, 121), diffRemoved |-> rgb(205, 49, 49)]

\* Math.round(a / b) for a, b >= 0
RoundDiv(a, b) == (2 * a + b) \div (2 * b)

\* Math.round(x * 255) of the float x = n / 255
Times255(n) == RoundDiv(n * 255, 255)

toIntRGBA(rgba) ==
    [r |-> Times255(rgba.r), g |-> Times255(rgba.g),
     b |-> Times255(rgba.b), a |-> Times255(rgba.a)]

\* the theme conversion of renderMarkdownThemedStyled
convertTheme(t) == [role \in Roles |-> toIntRGBA(t[role])]

(***************************************************************************)
(* textChunksToAnsi                                                        *)
(***************************************************************************)
DigitChars == <<"0", "1", "2", "3", "4", "5", "6", "7", "8", "9">>

\* `${n}` for an integer 0 <= n < 1000
NumberToString(n) ==
    IF n < 10 THEN <<DigitChars[n + 1]>>
    ELSE IF n < 100 THEN <<DigitChars[(n \div 10) + 1], DigitChars[(n % 10) + 1]>>
    ELSE <<DigitChars[(n \div 100) + 1], DigitChars[((n \div 10) % 10) + 1],
           DigitChars[(n % 10) + 1]>>

\* "\x1b[" + body + "m"
Sgr(body) == <<ESC, "[">> \o body \o <<"m">>

RgbBody(c) ==
    NumberToString(c.r) \o <<";">> \o NumberToString(c.g) \o <<";">>
        \o NumberToString(c.b)

\* the foreground written with the background's code (a variant of rgbToAnsi)
rgbToAnsiAsBackground(c) == Sgr(<<"4", "8", ";", "2", ";">> \o RgbBody(c))

rgbToAnsi(c) == Sgr(<<"3", "8", ";", "2", ";">> \o RgbBody(c))

\* the attribute bits in the order textChunksToAnsi tests them, each with
\* the code it writes
AttrCodes == << <<Attr.BOLD, "1">>, <<Attr.DIM, "2">>, <<Attr.ITALIC, "3">>,
                <<Attr.UNDERLINE, "4">>, <<Attr.BLINK, "5">>, <<Attr.INVERSE, "7">>,
                <<Attr.HIDDEN, "8">>, <<Attr.STRIKETHROUGH, "9">> >>

\* the codes written before the text of one chunk
ChunkCodes[chunk \in ChunkT] ==
    Concat[[k \in 1..Len(AttrCodes) |->
               IF HasBit(chunk.attributes, AttrCodes[k][1])
               THEN Sgr(<<AttrCodes[k][2]>>) ELSE <<>>]]
      \o (IF chunk.fg # Undefined THEN rgbToAnsi(chunk.fg) ELSE <<>>)
      \o (IF chunk.bg # Undefined
          THEN Sgr(<<"4", "8", ";", "2", ";">> \o RgbBody(chunk.bg)) ELSE <<>>)

\* result += codes + chunk.text + (codes ? "\x1b[0m" : "")
ChunkToAnsi[chunk \in ChunkT] ==
    ChunkCodes[chunk] \o chunk.text
        \o (IF ChunkCodes[chunk] # <<>> THEN Sgr(<<"0">>) ELSE <<>>)

textChunksToAnsi[cs \in ChunkSeq] == Concat[[k \in 1..Len(cs) |-> ChunkToAnsi[cs[k]]]]

(***************************************************************************)
(* ansiToStyledText                                                        *)
(***************************************************************************)
NormalColors == << <<0, 0, 0>>, <<205, 49, 49>>, <<13, 188, 121>>, <<229, 229, 16>>,
                   <<36, 114, 200>>, <<188, 63, 188>>, <<17, 168, 205>>,
                   <<229, 229, 229>> >>

BrightColors == << <<102, 102, 102>>, <<241, 76, 76>>, <<35, 209, 139>>,
                   <<245, 245, 67>>, <<59, 142, 234>>, <<214, 112, 214>>,
                   <<41, 184, 219>>, <<229, 229, 229>> >>

AnsiColors == [code \in (30..37) \cup (90..97) |->
                  IF code <= 37 THEN NormalColors[code - 29] ELSE BrightColors[code - 89]]

AnsiBgColors == [code \in (40..47) \cup (100..107) |->
                    IF code <= 47 THEN NormalColors[code - 39] ELSE BrightColors[code - 99]]

\* { r: rgb[0], g: rgb[1], b: rgb[2], a: 255 }
FromTriple(t) == [r |-> t[1], g |-> t[2], b |-> t[3], a |-> 255]

StandardColors == << <<0, 0, 0>>, <<128, 0, 0>>, <<0, 128, 0>>, <<128, 128, 0>>,
                     <<0, 0, 128>>, <<128, 0, 128>>, <<0, 128, 128>>,
                     <<192, 192, 192>>, <<128, 128, 128>>, <<255, 0, 0>>,
                     <<0, 255, 0>>, <<255, 255, 0>>, <<0, 0, 255>>, <<255, 0, 255>>,
                     <<0, 255, 255>>, <<255, 255, 255>> >>

CubeLevel(v) == IF v # 0 THEN v * 40 + 55 ELSE 0

ansi256ToRgb(n) ==
    IF n < 16 THEN StandardColors[n + 1]
    ELSE IF n < 232
         THEN <<CubeLevel((n - 16) \div 36), CubeLevel(((n - 16) % 36) \div 6),
                CubeLevel((n - 16) % 6)>>
    ELSE <<(n - 232) * 10 + 8, (n - 232) * 10 + 8, (n - 232) * 10 + 8>>

DigitValue(c) == CHOOSE d \in 0..9 : DigitChars[d + 1] = c

\* Number(s) of a string of digits s[1..k]; Number("") is 0
NumberUpTo[s \in Text, k \in Int] == IF k = 0 THEN 0 ELSE 10 * NumberUpTo[s, k - 1] + DigitValue(s[k])

Number[s \in Text] == NumberUpTo[s, Len(s)]

\* /\x1b\[([0-9;]*)m/ at p: the position of the final "m", 0 if no match there
SgrEnd[input \in Text, p \in Int] ==
    IF ~HasAt[input, p, <<ESC, "[">>] THEN 0
    ELSE LET stops == {k \in (p + 2)..Len(input) :
                          ~(IsDigit(input[k]) \/ input[k] = ";")}
         IN IF stops # {} /\ input[SetMin[stops]] = "m" THEN SetMin[stops] ELSE 0

\* regex.exec(input) from lastIndex on: the position of the match, 0 if none
NextSgr[input \in Text, from \in Int] ==
    IF \E p \in from..Len(input) : SgrEnd[input, p] # 0
    THEN SetMin[{p \in from..Len(input) : SgrEnd[input, p] # 0}]
    ELSE 0

\* match[1].split(";").map(Number)
Codes[body \in Text] ==
    LET parts == SplitAt[body, {k \in 1..Len(body) : body[k] = ";"}]
    IN [k \in 1..Len(parts) |-> Number[parts[k]]]

\* codes[k] ?? 0
CodeOr(codes, k) == IF k \in DOMAIN codes THEN codes[k] ELSE 0

\* any code at k counts (a variant of CodeIs)
CodeIsPresent(codes, k, v) == k \in DOMAIN codes

\* codes[k] === v
CodeIs(codes, k, v) == k \in DOMAIN codes /\ codes[k] = v

\* { r, g, b, a: 255 } from codes[k], codes[k + 1], codes[k + 2]
Direct(codes, k) ==
    [r |-> CodeOr(codes, k), g |-> CodeOr(codes, k + 1), b |-> CodeOr(codes, k + 2),
     a |-> 255]

\* ansiToStyledText's fg, bg, attributes and the loop index i
ParseState == [fg : Color, bg : Color, attributes : Int, i : Int]

\* the body of the loop over codes at index k, without the final i++
ApplyCode[codes \in IntSeq, st \in ParseState] ==
    LET k == st.i
        code == codes[k]
    IN IF code = 0 THEN [st EXCEPT !.fg = Undefined, !.bg = Undefined, !.attributes = 0]
       ELSE IF code = 1 THEN [st EXCEPT !.attributes = BitOr(@, Attr.BOLD)]
       ELSE IF code = 2 THEN [st EXCEPT !.attributes = BitOr(@, Attr.DIM)]
       ELSE IF code = 3 THEN [st EXCEPT !.attributes = BitOr(@, Attr.ITALIC)]
       ELSE IF code = 4 THEN [st EXCEPT !.attributes = BitOr(@, Attr.UNDERLINE)]
       ELSE IF code = 5 THEN [st EXCEPT !.attributes = BitOr(@, Attr.BLINK)]
       ELSE IF code = 7 THEN [st EXCEPT !.attributes = BitOr(@, Attr.INVERSE)]
       ELSE IF code = 9 THEN [st EXCEPT !.attributes = BitOr(@, Attr.STRIKETHROUGH)]
       ELSE IF code >= 30 /\ code <= 37 THEN [st EXCEPT !.fg = FromTriple(AnsiColors[code])]
       ELSE IF code >= 40 /\ code <= 47 THEN [st EXCEPT !.bg = FromTriple(AnsiBgColors[code])]
       ELSE IF code >= 90 /\ code <= 97 THEN [st EXCEPT !.fg = FromTriple(AnsiColors[code])]
       ELSE IF code >= 100 /\ code <= 107
            THEN [st EXCEPT !.bg = FromTriple(AnsiBgColors[code])]
       ELSE IF code = 38 /\ CodeIs(codes, k + 1, 2)
            THEN [st EXCEPT !.fg = Direct(codes, k + 2), !.i = k + 4]
       ELSE IF code = 48 /\ CodeIs(codes, k + 1, 2)
            THEN [st EXCEPT !.bg = Direct(codes, k + 2), !.i = k + 4]
       ELSE IF code = 38 /\ CodeIs(codes, k + 1, 5)
            THEN [st EXCEPT !.fg = FromTriple(ansi256ToRgb(CodeOr(codes, k + 2))),
                            !.i = k + 2]
       ELSE IF code = 48 /\ CodeIs(codes, k + 1, 5)
            THEN [st EXCEPT !.bg = FromTriple(ansi256ToRgb(CodeOr(codes, k + 2))),
                            !.i = k + 2]
       ELSE IF code = 39 THEN [st EXCEPT !.fg = Undefined]
       ELSE IF code = 49 THEN [st EXCEPT !.bg = Undefined]
       ELSE st

\* while (i < codes.length) { ...; i++ }
ApplyCodes[codes \in IntSeq, st \in ParseState] ==
    IF st.i > Len(codes) THEN st
    ELSE ApplyCodes[codes, [ApplyCode[codes, st] EXCEPT !.i = @ + 1]]

(***************************************************************************)
(* stripAnsi, visibleWidth                                                 *)
(***************************************************************************)
\* str.replace(/\x1b\[[0-9;]*m/g, "") from position p on
StripAnsiFrom[s \in Text, p \in Int] ==
    IF NextSgr[s, p] = 0 THEN From[s, p]
    ELSE Slice[s, p, NextSgr[s, p] - 1]
           \o StripAnsiFrom[s, SgrEnd[s, NextSgr[s, p]] + 1]

stripAnsi[s \in Text] == StripAnsiFrom[s, 1]

\* stripAnsi(str).length
visibleWidth[s \in Text] == Len(stripAnsi[s])

(***************************************************************************)
(* parseMarkdownSegments                                                   *)
(***************************************************************************)
\* { type: "text", content: currentText.join("\n") }
TextSegment(content) == [type |-> "text", content |-> Join[content, <<LF>>]]

\* { type: "code", content: codeBlockContent.join("\n"), language: codeBlockLang }
CodeSegment(content, language) ==
    [type |-> "code", content |-> Join[content, <<LF>>], language |-> language]

\* a text segment is pushed even for no lines (a variant of flushText)
flushTextAlways(current, segs) == Append(segs, TextSegment(current))

\* flushText: what segments is afterwards
flushText(current, segs) ==
    IF Len(current) > 0 THEN Append(segs, TextSegment(current)) ELSE segs

\* trimmed.slice(3).trim() || "text"
LanguageOf(trimmed) ==
    IF trim[From[trimmed, 4]] = <<>> THEN <<"t", "e", "x", "t">>
    ELSE trim[From[trimmed, 4]]

(***************************************************************************)
(* theme-loader.ts.  A color string is a sequence of characters; a         *)
(* ColorValue is [string |-> s] or [dark |-> s, light |-> s].  A color     *)
(* component is kept as its numerator over 255.                            *)
(***************************************************************************)
EmptyObject == [k \in {} |-> k]

\* property names every object inherits from Object.prototype
InheritedKeys == {"constructor", "toString", "valueOf", "hasOwnProperty",
                  "isPrototypeOf", "propertyIsEnumerable", "toLocaleString",
                  "__proto__"}

\* THEMES[name] || THEMES.opencode: an own property, else an inherited one
\* (an object without defs and theme), else the opencode theme
themeDataOf(T, name) ==
    IF name \in DOMAIN T THEN T[name]
    ELSE IF name \in InheritedKeys THEN EmptyObject
    ELSE T.opencode

\* obj[key] || {}
ObjectOr(obj, key) == IF key \in DOMAIN obj THEN obj[key] ELSE EmptyObject

\* defs[key] || key
DefOr(defs, key) == IF key \in DOMAIN defs THEN defs[key] ELSE key

resolveColor(value, defs, m) ==
    IF "string" \in DOMAIN value THEN DefOr(defs, value.string)
    ELSE DefOr(defs, IF m = "dark" THEN value.dark ELSE value.light)

HexDigits == <<"0", "1", "2", "3", "4", "5", "6", "7", "8", "9",
               "a", "b", "c", "d", "e", "f">>

IsHexDigit(c) == \E d \in 1..16 : HexDigits[d] = c

HexValue(c) == (CHOOSE d \in 1..16 : HexDigits[d] = c) - 1

\* the result of parseInt when no digit can be read
NaN == -1

\* Number.parseInt(s, 16) of a string of at most two characters
parseInt16(s) ==
    IF s = <<>> \/ ~IsHexDigit(s[1]) THEN NaN
    ELSE IF Len(s) = 1 \/ ~IsHexDigit(s[2]) THEN HexValue(s[1])
    ELSE 16 * HexValue(s[1]) + HexValue(s[2])

\* hex.replace("#", "")
Cleaned(hex) ==
    IF IndexOfChar[hex, "#", 1] = 0 THEN hex
    ELSE Slice[hex, 1, IndexOfChar[hex, "#", 1] - 1] \o From[hex, IndexOfChar[hex, "#", 1] + 1]

hexToRGBA(hex) ==
    [r |-> parseInt16(Slice[Cleaned(hex), 1, 2]),
     g |-> parseInt16(Slice[Cleaned(hex), 3, 4]),
     b |-> parseInt16(Slice[Cleaned(hex), 5, 6]),
     a |-> 255]

\* { r: 1, g: 1, b: 1, a: 1 }
White == [r |-> 255, g |-> 255, b |-> 255, a |-> 255]

\* loadTheme.resolve
resolve(themeObj, defs, key, m) ==
    IF key \notin DOMAIN themeObj THEN White
    ELSE hexToRGBA(resolveColor(themeObj[key], defs, m))

loadTheme(T, name, m) ==
    LET themeData == themeDataOf(T, IF name \in {Absent, ""} THEN "opencode" ELSE name)
        defs == ObjectOr(themeData, "defs")
        themeObj == ObjectOr(themeData, "theme")
    IN [role \in Roles |-> resolve(themeObj, defs, role, m)]

(***************************************************************************)
(* Block classification: the regular expressions of the two scans          *)
(***************************************************************************)
NoGroups == [ok |-> FALSE, g1 |-> <<>>, g2 |-> <<>>]

Groups(a, b) == [ok |-> TRUE, g1 |-> a, g2 |-> b]

\* number of leading characters of s that belong to C
LeadIn[s \in Text, C \in CharSet] ==
    IF \A k \in 1..Len(s) : s[k] \in C THEN Len(s)
    ELSE SetMin[{k \in 1..Len(s) : s[k] \notin C}] - 1

\* /\s+(.*)$/ at position p: the group, with a as first group
RestAny[s \in Text, p \in Int, a \in Text] ==
    IF LeadSpaces[From[s, p]] = 0 THEN NoGroups
    ELSE Groups(a, From[s, p + LeadSpaces[From[s, p]]])

\* /\s+(.+)$/ at position p: when only whitespace follows, the greedy \s+
\* gives its last character back to the group
RestSome[s \in Text, p \in Int, a \in Text] ==
    LET n == LeadSpaces[From[s, p]]
    IN IF n = 0 THEN NoGroups
       ELSE IF p + n <= Len(s) THEN Groups(a, From[s, p + n])
       ELSE IF n >= 2 THEN Groups(a, <<s[Len(s)]>>)
       ELSE NoGroups

\* s.match(/^(#{1,6})\s+(.*)$/): g1 the hashes, g2 the text
headerMatch[s \in Text] ==
    LET n == LeadIn[s, {"#"}]
    IN IF n >= 1 /\ n <= 6 THEN RestAny[s, n + 1, Rep("#", n)] ELSE NoGroups

\* s.match(/^(#{1,6})\s+(.+)$/)
headerMatchSimple[s \in Text] ==
    LET n == LeadIn[s, {"#"}]
    IN IF n >= 1 /\ n <= 6 THEN RestSome[s, n + 1, Rep("#", n)] ELSE NoGroups

\* /^(-{3,}|_{3,}|\*{3,})$/.test(s)
isRule[s \in Text] ==
    /\ Len(s) >= 3
    /\ \E c \in {"-", "_", "*"} : \A k \in 1..Len(s) : s[k] = c

Bullets == {"-", "*", "+"}

\* s.match(/^[-*+]\s+\[([ xX])\]\s+(.*)$/): g1 the mark, g2 the content
taskMatch[s \in Text] ==
    LET b == 2 + LeadSpaces[From[s, 2]]
    IN IF /\ Len(s) >= 1
          /\ s[1] \in Bullets
          /\ b > 2
          /\ HasAt[s, b, <<"[">>]
          /\ b + 2 <= Len(s)
          /\ s[b + 1] \in {" ", "x", "X"}
          /\ s[b + 2] = "]"
       THEN RestAny[s, b + 3, <<s[b + 1]>>]
       ELSE NoGroups

\* s.match(/^[-*+]\s+(.*)$/): g2 the content
ulMatch[s \in Text] ==
    IF Len(s) >= 1 /\ s[1] \in Bullets THEN RestAny[s, 2, <<>>] ELSE NoGroups

\* s.match(/^(\d+)[.)]\s+(.*)$/): g1 the number, g2 the content
olMatch[s \in Text] ==
    LET n == LeadIn[s, {"0", "1", "2", "3", "4", "5", "6", "7", "8", "9"}]
    IN IF n >= 1 /\ n + 1 <= Len(s) /\ s[n + 1] \in {".", ")"}
       THEN RestAny[s, n + 2, Slice[s, 1, n]]
       ELSE NoGroups

\* line.match(/^(\s*)[-*+]\s+(.+)$/): g1 the indentation, g2 the content
listMatch[s \in Text] ==
    LET n == LeadSpaces[s]
    IN IF n + 1 <= Len(s) /\ s[n + 1] \in Bullets
       THEN RestSome[s, n + 2, Rep(" ", n)]
       ELSE NoGroups

\* line.match(/^(\s*)/)?.[1] ?? ""
Indent[line \in Text] == Rep(" ", LeadSpaces[line])

Fence == <<BT, BT, BT>>

\* trimmed.startsWith("|") && trimmed.endsWith("|")
isTableLine[s \in Text] == startsWith[s, <<"|">>] /\ endsWith[s, <<"|">>]

\* trimmed.replace(/^>\s*/, "")
QuoteContent[s \in Text] == From[s, 2 + LeadSpaces[From[s, 2]]]

\* x.toLowerCase() of one character of [ xX]
toLowerCase(c) == IF c = <<"X">> THEN <<"x">> ELSE c

(***************************************************************************)
(* renderMarkdownThemedStyled: what one line of the scan appends           *)
(***************************************************************************)
\* the line without its own indentation (a variant of CodeText)
CodeTextTrimmed(line) == <<" ", " ">> \o trim[line] \o <<LF>>

\* "  " + line + "\n"
CodeText(line) == <<" ", " ">> \o line \o <<LF>>

\* a line inside a code block
CodeLine[line \in Text, lang \in Text, th \in ThemeT] ==
    LET t == trim[line]
        txt == CodeText(line)
    IN IF lang = <<"d", "i", "f", "f">>
       THEN IF startsWith[t, <<"+">>] THEN addChunk[txt, th.diffAdded, 0]
            ELSE IF startsWith[t, <<"-">>] THEN addChunk[txt, th.diffRemoved, 0]
            ELSE addChunk[txt, th.markdownCodeBlock, 0]
       ELSE addChunk[txt, th.markdownCodeBlock, Attr.ITALIC]

\* String.prototype.repeat throws a RangeError for a negative count
RepeatThrows(n) == n < 0

\* a line outside code blocks and tables that is not a horizontal rule
BlockLine[line \in Text, th \in ThemeT] ==
    LET t == trim[line]
        nl == addChunk[<<LF>>, Undefined, 0]
    IN IF headerMatch[t].ok
       THEN IF Len(headerMatch[t].g1) <= 2
            THEN addChunkWithBg[<<" ", " ">>, th.markdownHeading, th.backgroundPanel,
                                Attr.BOLD]
                   \o renderInlineThemedWithDefault[headerMatch[t].g2, th,
                                                    th.markdownHeading, Attr.BOLD]
                   \o addChunkWithBg[<<" ", " ", LF>>, th.markdownHeading,
                                     th.backgroundPanel, Attr.BOLD]
            ELSE renderInlineThemedWithDefault[headerMatch[t].g2, th,
                                               th.markdownHeading, Attr.BOLD] \o nl
       ELSE IF startsWith[t, <<">">>]
       THEN addChunk[<<" ", " ", Box.vertical, " ">>, th.border, Attr.DIM]
              \o renderInlineThemedWithDefault[QuoteContent[t], th,
                                               th.markdownBlockQuote, Attr.ITALIC]
              \o nl
       ELSE IF taskMatch[t].ok
       THEN LET checked == toLowerCase(taskMatch[t].g1) = <<"x">>
            IN addChunk[Indent[line] \o <<"-", " ">>, th.markdownListItem, 0]
                 \o addChunk[<<"[">>, th.markdownListItem, 0]
                 \o addChunk[IF checked THEN <<"x">> ELSE <<" ">>,
                             IF checked THEN th.diffAdded ELSE th.textMuted, 0]
                 \o addChunk[<<"]", " ">>, th.markdownListItem, 0]
                 \o renderInlineThemed[taskMatch[t].g2, th]
                 \o nl
       ELSE IF ulMatch[t].ok
       THEN addChunk[Indent[line] \o <<"-", " ">>, th.markdownListItem, 0]
              \o renderInlineThemed[ulMatch[t].g2, th] \o nl
       ELSE IF olMatch[t].ok
       THEN addChunk[Indent[line] \o olMatch[t].g1 \o <<".", " ">>,
                     th.markdownListEnumeration, 0]
              \o renderInlineThemed[olMatch[t].g2, th] \o nl
       ELSE IF t = <<>> THEN nl
       ELSE renderInlineThemed[line, th] \o nl

\* the horizontal rule of the styled scan
RuleLine[c \in Int, th \in ThemeT] ==
    addChunk[Rep(Box.horizontal, c - 4) \o <<LF>>, th.markdownHorizontalRule, Attr.DIM]

\* const nextLine = lines[i + 1]?.trim();
\* !nextLine || !nextLine.startsWith("|") || !nextLine.endsWith("|")
tableEnds[ls \in Texts, k \in Int] == k + 1 > Len(ls) \/ ~isTableLine[trim[ls[k + 1]]]

(***************************************************************************)
(* renderMarkdownSimple: what one line pushes on result                    *)
(***************************************************************************)
\* options.indent ?? "  "
indent == <<" ", " ">>

\* options.listPrefix ?? "- "
listPrefix == <<"-", " ">>

\* Math.min(cols - 4, 60)
SimpleRuleLength(c) == Min(c - 4, 60)

\* indent + codeBlockContent.join("\n" + indent)
SimpleCodeBlock[content \in Texts] == indent \o Join[content, <<LF>> \o indent]

\* a line outside code blocks that is not a horizontal rule
SimpleLine[line \in Text] ==
    IF headerMatchSimple[line].ok
    THEN <<LF>> \o headerMatchSimple[line].g2 \o <<LF>>
    ELSE IF listMatch[line].ok
    THEN Concat[Rep(indent, Len(listMatch[line].g1) \div 2)] \o listPrefix
           \o listMatch[line].g2
    ELSE line

SimpleRule[c \in Int] == <<LF>> \o Rep(Box.horizontal, SimpleRuleLength(c)) \o <<LF>>

(***************************************************************************)
(* Inputs                                                                  *)
(***************************************************************************)
MaxLines == 3
MaxColumns == 2
MaxMissing == 1
MaxChunks == 2
MaxInline == 5
MaxStr == 6
MaxCodes == 3

\* sequences over S of length lo..hi
SeqsOf(S, lo, hi) == UNION {[1..n -> S] : n \in lo..hi}

\* the lines documents are made of: one of every block kind
LinePool ==
    { <<BT, BT, BT>>,
      <<BT, BT, BT, "d", "i", "f", "f">>,
      <<"+", "x">>,
      <<"x">>,
      <<"-", "-", "-">>,
      <<"#", " ", "h">>,
      <<"#", "#", "#", " ", "*", "h", "*">>,
      <<">", " ", "q">>,
      <<"-", " ", "[", "x", "]", " ", "t">>,
      <<" ", " ", "-", " ", "u">>,
      <<"1", ".", " ", "o">>,
      <<>>,
      <<"|">> \o Rep("a", 11) \o <<"|", "b", "|">>,
      <<"|", "-", "|", "-", "|">>,
      <<"*", "*", "b", " ", "*", "i", "*", "*", "*", " ", BT, "c", BT, "~">>,
      <<ESC, "[", "1", "m", "e">> }

Docs == SeqsOf(LinePool, 1, MaxLines)

\* a theme whose roles all have different colors
DistinctTheme == [role \in Roles |->
                     LET k == CHOOSE n \in 1..Len(RoleList) : RoleList[n] = role
                     IN rgb(k, 2 * k, 255 - k)]

\* the roles partial themes may lack
PartialRoles == {"markdownText", "diffRemoved", "border"}

\* themes that lack 1..MaxMissing roles
PartialThemes ==
    {[role \in Roles \ M |-> DistinctTheme[role]] :
        M \in {X \in SUBSET PartialRoles : X # {} /\ Cardinality(X) <= MaxMissing}}

\* options.theme: absent, complete, or partial
ThemeOptions == {Undefined, DistinctTheme} \cup PartialThemes

ColsPool == {3, 24}

\* | c1 | c2 | ... |
MakeRow[cells \in Texts] ==
    <<"|">> \o Concat[[k \in 1..Len(cells) |-> <<" ">> \o cells[k] \o <<" ", "|">>]]

HeaderPool == { <<"h">>, Rep("h", 12), Rep(CJK, 6) }

CellPool ==
    { <<>>,
      Rep("c", 9),
      Rep("a", 11),
      <<"a", "a", "a", "a", "-", "b", "b", "b", "b", ".", "c", "c", "c", "c">>,
      <<BT, "a", ".", "b", "-", "c", ".", "d", "-", "e", ".", "f", BT>>,
      <<"*", "*", "b", "o", "*", "*", " ", "w", "o", " ", "r", "d", " ", "x", "y">>,
      Rep(CJK, 6) }

\* a header line, a separator line and one data row, all with n cells
TableDocs ==
    UNION {{<<MakeRow[h], MakeRow[[k \in 1..n |-> <<"-", "-", "-">>]], MakeRow[r]>> :
               h \in [1..n -> HeaderPool], r \in [1..n -> CellPool]} :
           n \in 1..MaxColumns}

TableColsPool == {18, 36}

\* the table of two lines "| a | b |", "| 1 | 2 |"
SmallTable == <<MakeRow[<< <<"a">>, <<"b">> >>], MakeRow[<< <<"1">>, <<"2">> >>]>>

\* the texts of the inline tokenizer: every text of delimiters and letters up
\* to MaxInline characters, bold spans around one italic span, links
InlineAlphabet == {"*", "a", BT, "~"}

Stars(n) == Rep("*", n)

\* "**" pre "*" mid "*" post "**" between before and after
BoldAroundItalic(before, pre, mid, post, after) ==
    before \o Stars(2) \o pre \o Stars(1) \o mid \o Stars(1) \o post \o Stars(2)
        \o after

PlainPool == { <<>>, <<"x", " ">> }

PrePool == { <<>>, <<"b", "o", "l", "d", " ">> }

MidPool == { <<"i">>, <<"a", "n", "d", " ", "i", "t", "a", "l", "i", "c">> }

PostPool == { <<>>, <<" ", "t", "e", "x", "t">> }

NestedParams == PlainPool \X PrePool \X MidPool \X PostPool \X PlainPool

NestedTexts == {BoldAroundItalic(n[1], n[2], n[3], n[4], n[5]) : n \in NestedParams}

LinkTexts ==
    { <<"[", "a", "]", "(", "u", ")">>,
      <<"[", "a", "]", "(", "u">>,
      <<"[", "a", "]", "u", ")">>,
      <<"[", "a", "(", "u", ")">>,
      <<"[", "]", "(", "u", ")">>,
      <<"[", "a", "]", "(", ")">>,
      <<"_", "_", "_", "a", "_", "_", "_">>,
      <<"_", "_", "_", "a", "_", "_">>,
      <<"_", "a", "_">> }

InlineTexts == SeqsOf(InlineAlphabet, 0, MaxInline) \cup NestedTexts \cup LinkTexts

\* the default styles of the call sites: paragraph, heading, block quote
InlineDefaults ==
    LET th == convertTheme(DistinctTheme)
    IN { <<th.markdownText, 0>>, <<th.markdownHeading, Attr.BOLD>>,
         <<th.markdownBlockQuote, Attr.ITALIC>> }

\* the strings of stripAnsi: escape-sequence characters and a letter
StrAlphabet == {ESC, "[", "m", "1", "a"}

StrPool == SeqsOf(StrAlphabet, 0, MaxStr)

\* the codes of an escape sequence, as written: empty, attributes, colors,
\* parameters, and numbers that are no code
CodePool == { <<>>, <<"1">>, <<"6">>, <<"8">>, <<"3", "8">>, <<"2">>, <<"5">>,
              <<"4", "8">>, <<"3", "9">>, <<"1", "0", "8">> }

\* longer sequences: direct colors and palette colors among other codes
LongCodes ==
    { << <<"3", "8">>, <<"2">>, <<"1">>, <<"6">>, <<"3">>, <<"6">>, <<"1">> >>,
      << <<"6">>, <<"4", "8">>, <<"2">>, <<"6">>, <<"6">>, <<"6">>, <<"6">> >>,
      << <<"3", "8">>, <<"5">>, <<"6">>, <<"6">>, <<"9">> >>,
      << <<"3", "8">>, <<"6">>, <<"5">>, <<"3">> >>,
      << <<"4", "8">>, <<"5">>, <<"3", "0", "0">>, <<"2", "1">> >> }

CodeSeqs == SeqsOf(CodePool, 1, MaxCodes) \cup LongCodes

\* bold, red on green
StyledPrefix == Sgr(<<"1", ";", "3", "1", ";", "4", "2">>)

\* text, an escape sequence with the codes, text; with and without a style
\* in effect
ParseInputs ==
    {pre \o <<"x">> \o Sgr(Join[cs, <<";">>]) \o <<"y">> :
        pre \in { <<>>, StyledPrefix }, cs \in CodeSeqs}

\* inputs without text, without escape sequences, with adjacent, trailing,
\* unfinished and nested escape sequences
ParseEdgeInputs ==
    { <<>>,
      <<"x", "y">>,
      Sgr(<<"1">>) \o Sgr(<<"3", "1">>),
      <<"x">> \o Sgr(<<"1">>) \o Sgr(<<"0">>) \o <<"y">> \o Sgr(<<"4">>),
      StyledPrefix \o <<"x">> \o Sgr(<<"0", ";", "3">>) \o <<"y">>,
      <<"x", ESC, "[", "1">>,
      <<ESC, "[", ESC, "[", "m", "m">>,
      <<"x", ESC, "[", "1", "a", "m">> \o Sgr(<<"7">>) \o <<"y">> }

(***************************************************************************)
(* Initial states: one call with its arguments                             *)
(***************************************************************************)
ScanLocals ==
    /\ error = "none"
    /\ i = 1
    /\ inCodeBlock = FALSE
    /\ codeBlockLang = <<>>
    /\ codeBlockContent = <<>>
    /\ inTable = FALSE
    /\ tableLines = <<>>
    /\ result = <<>>
    /\ colWidths = <<>>

ScanInit ==
    /\ ScanLocals
    /\ theme = Undefined
    /\ output = <<>>

NoRender ==
    /\ lines = <<>>
    /\ cols = 80
    /\ colors = TRUE
    /\ tuiTheme = Undefined

NoLoader ==
    /\ THEMES = EmptyObject
    /\ themeName = Absent
    /\ mode = "dark"
    /\ loaded = Undefined

NoParser ==
    /\ lastIndex = 1
    /\ fg = Undefined
    /\ bg = Undefined
    /\ attributes = 0
    /\ styledText = <<>>

NoStrings ==
    /\ str = <<>>
    /\ argColor = Undefined
    /\ argAttrs = 0
    /\ stripped = <<>>
    /\ visible = 0
    /\ strippedVisible = 0

NoSegments ==
    /\ currentText = <<>>
    /\ segments = <<>>

\* renderMarkdown(md, { cols, colors, theme })
Init ==
    /\ call = "renderMarkdown"
    /\ pc = "renderMarkdown"
    /\ lines \in Docs
    /\ cols \in ColsPool
    /\ colors \in BOOLEAN
    /\ tuiTheme \in (IF colors THEN ThemeOptions ELSE {Undefined})
    /\ chunks = <<>>
    /\ ScanInit
    /\ NoLoader
    /\ NoParser
    /\ NoStrings
    /\ NoSegments

\* renderMarkdownThemedStyled(md, theme, { cols }) on a document that is a table
InitTable ==
    /\ call = "renderMarkdownThemedStyled"
    /\ pc = "convert"
    /\ \/ lines \in TableDocs /\ cols \in TableColsPool
       \/ lines = SmallTable /\ cols = 80
    /\ colors = TRUE
    /\ tuiTheme = createDefaultCliTheme
    /\ chunks = <<>>
    /\ ScanInit
    /\ NoLoader
    /\ NoParser
    /\ NoStrings
    /\ NoSegments

\* two hex digits of 0 <= n <= 255
Hex2(n) == <<HexDigits[(n \div 16) + 1], HexDigits[(n % 16) + 1]>>

\* "#rrggbb"
HexOf(r, g, b) == <<"#">> \o Hex2(r) \o Hex2(g) \o Hex2(b)

RoleIndex(role) == CHOOSE n \in 1..Len(RoleList) : RoleList[n] = role

\* the name of the def that holds the dark color of a role
DefName(role) == <<"d">> \o NumberToString(RoleIndex(role))

\* a theme JSON file with base color component c that lacks the roles of
\* missing; with defs its values are literals, references to defs, and
\* { dark, light } pairs in turn, without defs literals and pairs of literals
ThemeJson(c, missing, withDefs) ==
    LET dark(role) == HexOf(c, RoleIndex(role), 0)
        light(role) == HexOf(c, RoleIndex(role), 255)
        themeObj == [role \in Roles \ missing |->
                        IF RoleIndex(role) % 3 = 0 THEN [string |-> dark(role)]
                        ELSE IF RoleIndex(role) % 3 = 1
                             THEN [string |-> IF withDefs THEN DefName(role)
                                              ELSE dark(role)]
                        ELSE [dark |-> IF withDefs THEN DefName(role) ELSE dark(role),
                              light |-> light(role)]]
    IN IF withDefs
       THEN [defs |-> [n \in {DefName(role) : role \in Roles} |->
                          dark(CHOOSE role \in Roles : DefName(role) = n)],
             theme |-> themeObj]
       ELSE [theme |-> themeObj]

\* the roles a theme file may lack
MissingPool == {"text", "markdownCode", "diffRemoved", "border"}

MissingSets == {M \in SUBSET MissingPool : Cardinality(M) <= MaxMissing}

\* the theme files: opencode and one of the eleven others
ThemeFiles ==
    {[opencode |-> ThemeJson(16, m1, d1), aura |-> ThemeJson(32, m2, d2)] :
        m1 \in MissingSets, m2 \in MissingSets, d1 \in BOOLEAN, d2 \in BOOLEAN}

\* absent, empty, known, unknown, and inherited from Object.prototype
ThemeNames == {Absent, "", "opencode", "aura", "nope", "toString"}

\* loadTheme(themeName, mode)
InitTheme ==
    /\ call = "loadTheme"
    /\ pc = "loadTheme"
    /\ THEMES \in ThemeFiles
    /\ themeName \in ThemeNames
    /\ mode \in {"dark", "light"}
    /\ loaded = Undefined
    /\ chunks = <<>>
    /\ NoRender
    /\ ScanInit
    /\ NoParser
    /\ NoStrings
    /\ NoSegments

\* chunks without colors, with a foreground, with both; without attributes,
\* with one of them, with all
ChunkPool ==
    {Chunk(t, c[1], c[2], a) :
        t \in { <<"a">>, <<"m", "1">> },
        c \in { <<Undefined, Undefined>>,
                <<[r |-> 1, g |-> 20, b |-> 255, a |-> 255], Undefined>>,
                <<[r |-> 1, g |-> 20, b |-> 255, a |-> 255],
                  [r |-> 0, g |-> 0, b |-> 0, a |-> 255]>> },
        a \in {0, 255} \cup AttrBits}

\* ansiToStyledText(textChunksToAnsi(chunks))
InitAnsi ==
    /\ call = "ansiToStyledText"
    /\ pc = "textChunksToAnsi"
    /\ chunks \in SeqsOf(ChunkPool, 1, MaxChunks)
    /\ NoRender
    /\ ScanInit
    /\ NoLoader
    /\ NoParser
    /\ NoStrings
    /\ NoSegments

\* renderInlineThemedWithDefault(str, theme, chunks, argColor, argAttrs)
InitInline ==
    /\ call = "renderInlineThemedWithDefault"
    /\ pc = "renderInlineThemedWithDefault"
    /\ str \in InlineTexts
    /\ \E d \in InlineDefaults : argColor = d[1] /\ argAttrs = d[2]
    /\ theme = convertTheme(DistinctTheme)
    /\ chunks = <<>>
    /\ output = <<>>
    /\ stripped = <<>>
    /\ visible = 0
    /\ strippedVisible = 0
    /\ NoRender
    /\ ScanLocals
    /\ NoLoader
    /\ NoParser
    /\ NoSegments

\* visibleWidth(str), stripAnsi(str), visibleWidth(stripAnsi(str))
InitStrip ==
    /\ call = "visibleWidth"
    /\ pc = "visibleWidth"
    /\ str \in StrPool
    /\ argColor = Undefined
    /\ argAttrs = 0
    /\ stripped = <<>>
    /\ visible = 0
    /\ strippedVisible = 0
    /\ chunks = <<>>
    /\ NoRender
    /\ ScanInit
    /\ NoLoader
    /\ NoParser
    /\ NoSegments

\* parseMarkdownSegments(md)
InitSegments ==
    /\ call = "parseMarkdownSegments"
    /\ pc = "parseMarkdownSegments"
    /\ lines \in Docs
    /\ cols = 80
    /\ colors = TRUE
    /\ tuiTheme = Undefined
    /\ chunks = <<>>
    /\ ScanInit
    /\ NoLoader
    /\ NoParser
    /\ NoStrings
    /\ NoSegments

\* ansiToStyledText(input)
InitParse ==
    /\ call = "ansiToStyledText"
    /\ pc = "ansiToStyledText"
    /\ output \in ParseInputs \cup ParseEdgeInputs
    /\ theme = Undefined
    /\ chunks = <<>>
    /\ NoRender
    /\ ScanLocals
    /\ NoLoader
    /\ NoParser
    /\ NoStrings
    /\ NoSegments

(***************************************************************************)
(* Actions                                                                 *)
(***************************************************************************)
\* if (!colors) return renderMarkdownSimple(md, options)
UseSimple(c) == ~c

\* renderMarkdown: the dispatch on options.colors; options.theme ?? default
renderMarkdown ==
    /\ pc = "renderMarkdown"
    /\ IF UseSimple(colors)
       THEN pc' = "renderMarkdownSimple" /\ UNCHANGED tuiTheme
       ELSE /\ pc' = "convert"
            /\ tuiTheme' = IF tuiTheme = Undefined THEN createDefaultCliTheme
                           ELSE tuiTheme
    /\ UNCHANGED <<stringVars, segmentVars, call, error, lines, cols, colors, theme, scanVars, chunks, output,
                   colWidths, loaderVars, parserVars>>

\* renderMarkdownThemedStyled: the conversion of the theme; toIntRGBA reads
\* rgba.r of every role and throws a TypeError when the role is undefined
ConvertTheme ==
    /\ pc = "convert"
    /\ IF Roles \subseteq DOMAIN tuiTheme
       THEN /\ theme' = convertTheme(tuiTheme)
            /\ pc' = "scan"
            /\ UNCHANGED error
       ELSE /\ error' = "TypeError"
            /\ pc' = "done"
            /\ UNCHANGED theme
    /\ UNCHANGED <<stringVars, segmentVars, call, renderVars, scanVars, chunks, output, colWidths, loaderVars,
                   parserVars>>

\* the buffer restarts at every row (a variant of PushTableLine)
PushTableLineFresh(inT, tl, trimmed) == <<trimmed>>

\* if (!inTable) { inTable = true; tableLines = [] }; tableLines.push(trimmed)
PushTableLine(inT, tl, trimmed) == Append(IF inT THEN tl ELSE <<>>, trimmed)

\* one iteration of the loop over lines in renderMarkdownThemedStyled
ScanLine ==
    /\ pc = "scan"
    /\ i <= Len(lines)
    /\ LET line == lines[i]
           trimmed == trim[line]
       IN IF startsWith[trimmed, Fence]
          THEN /\ inCodeBlock' = ~inCodeBlock
               /\ codeBlockLang' = IF inCodeBlock THEN <<>> ELSE trim[From[trimmed, 4]]
               /\ i' = i + 1
               /\ UNCHANGED <<pc, error, inTable, tableLines, chunks>>
          ELSE IF inCodeBlock
          THEN /\ chunks' = chunks \o CodeLine[line, codeBlockLang, theme]
               /\ i' = i + 1
               /\ UNCHANGED <<pc, error, inCodeBlock, codeBlockLang, inTable, tableLines>>
          ELSE IF isTableLine[trimmed]
          THEN /\ tableLines' = PushTableLine(inTable, tableLines, trimmed)
               /\ inTable' = TRUE
               /\ IF tableEnds[lines, i]
                  THEN pc' = "renderTableThemed" /\ UNCHANGED i
                  ELSE i' = i + 1 /\ UNCHANGED pc
               /\ UNCHANGED <<error, inCodeBlock, codeBlockLang, chunks>>
          ELSE IF ~headerMatch[trimmed].ok /\ isRule[trimmed]
          THEN IF RepeatThrows(cols - 4)
               THEN /\ error' = "RangeError"
                    /\ pc' = "done"
                    /\ UNCHANGED <<i, inCodeBlock, codeBlockLang, inTable, tableLines,
                                   chunks>>
               ELSE /\ chunks' = chunks \o RuleLine[cols, theme]
                    /\ i' = i + 1
                    /\ UNCHANGED <<pc, error, inCodeBlock, codeBlockLang, inTable,
                                   tableLines>>
          ELSE /\ chunks' = chunks \o BlockLine[line, theme]
               /\ i' = i + 1
               /\ UNCHANGED <<pc, error, inCodeBlock, codeBlockLang, inTable, tableLines>>
    /\ UNCHANGED <<stringVars, segmentVars, call, renderVars, theme, codeBlockContent, result, output, colWidths,
                   loaderVars, parserVars>>

\* only an empty table is too small (a variant of TooSmall)
TooSmallIfEmpty(tl) == Len(tl) < 1

\* if (tableLines.length < 2) return
TooSmall(tl) == Len(tl) < 2

\* renderTableThemed up to the shrink loop: a table of fewer than two lines
\* returns at once, otherwise the natural column widths are computed
renderTableThemed ==
    /\ pc = "renderTableThemed"
    /\ IF TooSmall(tableLines)
       THEN /\ pc' = "scan"
            /\ inTable' = FALSE
            /\ tableLines' = <<>>
            /\ i' = i + 1
            /\ UNCHANGED colWidths
       ELSE /\ pc' = "shrink"
            /\ colWidths' = NaturalWidths[HeaderRow[tableLines], DataRows[tableLines]]
            /\ UNCHANGED <<inTable, tableLines, i>>
    /\ UNCHANGED <<stringVars, segmentVars, call, error, renderVars, theme, inCodeBlock, codeBlockLang,
                   codeBlockContent, result, chunks, output, loaderVars, parserVars>>

\* one iteration of the shrink loop
ShrinkStep ==
    /\ pc = "shrink"
    /\ ShrinkCond(colWidths, maxWidthOf(cols))
    /\ colWidths' = ShrinkOnce(colWidths)
    /\ UNCHANGED <<stringVars, segmentVars, call, pc, error, renderVars, theme, scanVars, chunks, output,
                   loaderVars, parserVars>>

\* renderTableThemed after the shrink loop, and the return to the scan
EmitTable ==
    /\ pc = "shrink"
    /\ ~ShrinkCond(colWidths, maxWidthOf(cols))
    /\ chunks' = chunks \o TableEmit[HeaderRow[tableLines], DataRows[tableLines],
                                     colWidths, theme]
    /\ pc' = "scan"
    /\ inTable' = FALSE
    /\ tableLines' = <<>>
    /\ i' = i + 1
    /\ UNCHANGED <<stringVars, segmentVars, call, error, renderVars, theme, inCodeBlock, codeBlockLang,
                   codeBlockContent, result, output, colWidths, loaderVars, parserVars>>

\* return new StyledText(chunks)
ScanEnd ==
    /\ pc = "scan"
    /\ i > Len(lines)
    /\ pc' = IF call = "renderMarkdown" THEN "textChunksToAnsi" ELSE "done"
    /\ UNCHANGED <<stringVars, segmentVars, call, error, renderVars, theme, scanVars, chunks, output, colWidths,
                   loaderVars, parserVars>>

\* textChunksToAnsi(chunks)
Serialize ==
    /\ pc = "textChunksToAnsi"
    /\ output' = textChunksToAnsi[chunks]
    /\ pc' = IF call = "renderMarkdown" THEN "done" ELSE "ansiToStyledText"
    /\ UNCHANGED <<stringVars, segmentVars, call, error, renderVars, theme, scanVars, chunks, colWidths,
                   loaderVars, parserVars>>

\* one iteration of the loop over lines in renderMarkdownSimple
SimpleScanLine ==
    /\ pc = "renderMarkdownSimple"
    /\ i <= Len(lines)
    /\ LET line == lines[i]
       IN IF startsWith[line, Fence]
          THEN /\ result' = IF inCodeBlock
                            THEN Append(result, SimpleCodeBlock[codeBlockContent])
                            ELSE result
               /\ codeBlockContent' = IF inCodeBlock THEN <<>> ELSE codeBlockContent
               /\ inCodeBlock' = ~inCodeBlock
               /\ i' = i + 1
               /\ UNCHANGED <<pc, error>>
          ELSE IF inCodeBlock
          THEN /\ codeBlockContent' = Append(codeBlockContent, line)
               /\ i' = i + 1
               /\ UNCHANGED <<pc, error, inCodeBlock, result>>
          ELSE IF ~headerMatchSimple[line].ok /\ isRule[trim[line]]
          THEN IF RepeatThrows(SimpleRuleLength(cols))
               THEN /\ error' = "RangeError"
                    /\ pc' = "done"
                    /\ UNCHANGED <<i, inCodeBlock, codeBlockContent, result>>
               ELSE /\ result' = Append(result, SimpleRule[cols])
                    /\ i' = i + 1
                    /\ UNCHANGED <<pc, error, inCodeBlock, codeBlockContent>>
          ELSE /\ result' = Append(result, SimpleLine[line])
               /\ i' = i + 1
               /\ UNCHANGED <<pc, error, inCodeBlock, codeBlockContent>>
    /\ UNCHANGED <<stringVars, segmentVars, call, renderVars, theme, codeBlockLang, inTable, tableLines, chunks,
                   output, colWidths, loaderVars, parserVars>>

\* return result.join("\n")
SimpleEnd ==
    /\ pc = "renderMarkdownSimple"
    /\ i > Len(lines)
    /\ output' = Join[result, <<LF>>]
    /\ pc' = "done"
    /\ UNCHANGED <<stringVars, segmentVars, call, error, renderVars, theme, scanVars, chunks, colWidths,
                   loaderVars, parserVars>>

\* loadTheme(themeName, mode)
LoadTheme ==
    /\ pc = "loadTheme"
    /\ loaded' = loadTheme(THEMES, themeName, mode)
    /\ pc' = "done"
    /\ UNCHANGED <<stringVars, segmentVars, call, error, renderVars, theme, scanVars, chunks, output, colWidths,
                   THEMES, themeName, mode, parserVars>>

\* a chunk is pushed even for no text (a variant of TextBefore)
TextBeforeAlways(p) ==
    Append(styledText, Chunk(Slice[output, lastIndex, p - 1], fg, bg, attributes))

\* the chunk pushed for the text in front of position p
TextBefore(p) ==
    IF p > lastIndex
    THEN Append(styledText, Chunk(Slice[output, lastIndex, p - 1], fg, bg, attributes))
    ELSE styledText

\* ansiToStyledText: one iteration of the loop over the escape sequences
ParseMatch ==
    /\ pc = "ansiToStyledText"
    /\ NextSgr[output, lastIndex] # 0
    /\ LET p == NextSgr[output, lastIndex]
           e == SgrEnd[output, p]
           st == ApplyCodes[Codes[Slice[output, p + 2, e - 1]],
                            [fg |-> fg, bg |-> bg, attributes |-> attributes, i |-> 1]]
       IN /\ styledText' = TextBefore(p)
          /\ fg' = st.fg
          /\ bg' = st.bg
          /\ attributes' = st.attributes
          /\ lastIndex' = e + 1
    /\ UNCHANGED <<stringVars, segmentVars, call, pc, error, renderVars, theme, scanVars, chunks, output,
                   colWidths, loaderVars>>

\* ansiToStyledText: the remaining text, and the return
ParseEnd ==
    /\ pc = "ansiToStyledText"
    /\ NextSgr[output, lastIndex] = 0
    /\ styledText' = TextBefore(Len(output) + 1)
    /\ pc' = "done"
    /\ UNCHANGED <<stringVars, segmentVars, call, error, renderVars, theme, scanVars, chunks, output, colWidths,
                   loaderVars, lastIndex, fg, bg, attributes>>

\* renderInlineThemedWithDefault: the whole call
RenderInline ==
    /\ pc = "renderInlineThemedWithDefault"
    /\ chunks' = chunks \o renderInlineThemedWithDefault[str, theme, argColor,
                                                         argAttrs]
    /\ pc' = "done"
    /\ UNCHANGED <<stringVars, segmentVars, call, error, renderVars, theme, scanVars,
                   output, colWidths, loaderVars, parserVars>>

\* visibleWidth(str)
VisibleWidth ==
    /\ pc = "visibleWidth"
    /\ visible' = visibleWidth[str]
    /\ pc' = "stripAnsi"
    /\ UNCHANGED <<str, argColor, argAttrs, stripped, strippedVisible,
                   segmentVars, call, error, renderVars, theme, scanVars, chunks,
                   output, colWidths, loaderVars, parserVars>>

\* stripAnsi(str)
StripAnsi ==
    /\ pc = "stripAnsi"
    /\ stripped' = stripAnsi[str]
    /\ pc' = "visibleWidthStripped"
    /\ UNCHANGED <<str, argColor, argAttrs, visible, strippedVisible,
                   segmentVars, call, error, renderVars, theme, scanVars, chunks,
                   output, colWidths, loaderVars, parserVars>>

\* visibleWidth(stripped)
VisibleWidthStripped ==
    /\ pc = "visibleWidthStripped"
    /\ strippedVisible' = visibleWidth[stripped]
    /\ pc' = "done"
    /\ UNCHANGED <<str, argColor, argAttrs, stripped, visible,
                   segmentVars, call, error, renderVars, theme, scanVars, chunks,
                   output, colWidths, loaderVars, parserVars>>

\* one iteration of the loop over lines in parseMarkdownSegments
SegmentLine ==
    /\ pc = "parseMarkdownSegments"
    /\ i <= Len(lines)
    /\ LET line == lines[i]
           trimmed == trim[line]
       IN IF startsWith[trimmed, Fence]
          THEN IF inCodeBlock
               THEN /\ segments' = Append(segments,
                                          CodeSegment(codeBlockContent, codeBlockLang))
                    /\ codeBlockContent' = <<>>
                    /\ inCodeBlock' = FALSE
                    /\ codeBlockLang' = <<>>
                    /\ UNCHANGED currentText
               ELSE /\ segments' = flushText(currentText, segments)
                    /\ currentText' = <<>>
                    /\ inCodeBlock' = TRUE
                    /\ codeBlockLang' = LanguageOf(trimmed)
                    /\ UNCHANGED codeBlockContent
          ELSE IF inCodeBlock
          THEN /\ codeBlockContent' = Append(codeBlockContent, line)
               /\ UNCHANGED <<inCodeBlock, codeBlockLang, currentText, segments>>
          ELSE /\ currentText' = Append(currentText, line)
               /\ UNCHANGED <<inCodeBlock, codeBlockLang, codeBlockContent, segments>>
    /\ i' = i + 1
    /\ UNCHANGED <<stringVars, call, pc, error, renderVars, theme, inTable, tableLines,
                   result, chunks, output, colWidths, loaderVars, parserVars>>

\* parseMarkdownSegments after the loop: the remaining text, the unclosed code
\* block, and the return
SegmentEnd ==
    /\ pc = "parseMarkdownSegments"
    /\ i > Len(lines)
    /\ segments' = IF inCodeBlock /\ Len(codeBlockContent) > 0
                   THEN Append(flushText(currentText, segments),
                               CodeSegment(codeBlockContent, codeBlockLang))
                   ELSE flushText(currentText, segments)
    /\ currentText' = <<>>
    /\ pc' = "done"
    /\ UNCHANGED <<stringVars, call, error, renderVars, theme, scanVars, chunks,
                   output, colWidths, loaderVars, parserVars>>

(***************************************************************************)
(* Specifications                                                          *)
(***************************************************************************)
Next ==
    \/ renderMarkdown
    \/ ConvertTheme
    \/ ScanLine
    \/ renderTableThemed
    \/ ShrinkStep
    \/ EmitTable
    \/ ScanEnd
    \/ Serialize
    \/ SimpleScanLine
    \/ SimpleEnd

Spec == Init /\ [][Next]_vars

NextTable ==
    \/ ConvertTheme
    \/ ScanLine
    \/ renderTableThemed
    \/ ShrinkStep
    \/ EmitTable
    \/ ScanEnd

\* a call that has started runs on: the program is sequential
SpecTable == InitTable /\ [][NextTable]_vars /\ WF_vars(NextTable)

NextTheme == LoadTheme

SpecTheme == InitTheme /\ [][NextTheme]_vars

NextAnsi ==
    \/ Serialize
    \/ ParseMatch
    \/ ParseEnd

SpecAnsi == InitAnsi /\ [][NextAnsi]_vars

NextInline == RenderInline

SpecInline == InitInline /\ [][NextInline]_vars

NextStrip ==
    \/ VisibleWidth
    \/ StripAnsi
    \/ VisibleWidthStripped

SpecStrip == InitStrip /\ [][NextStrip]_vars

NextSegments ==
    \/ SegmentLine
    \/ SegmentEnd

SpecSegments == InitSegments /\ [][NextSegments]_vars

NextParse ==
    \/ ParseMatch
    \/ ParseEnd

SpecParse == InitParse /\ [][NextParse]_vars

(***************************************************************************)
(* Properties of the table renderer (under SpecTable: the document is one  *)
(* table whose data rows have as many cells as the header)                 *)
(***************************************************************************)
\* the text of a sequence of chunks
TextOf[cs \in ChunkSeq] == Concat[[k \in 1..Len(cs) |-> cs[k].text]]

\* the lines of a text in which every line ends with a line feed
LinesOf[t \in Text] ==
    SelectSeq(SplitAt[t, {k \in 1..Len(t) : t[k] = LF}], NonEmpty)

\* the display widths of the lines ls[k], k in K
WidthsOf[ls \in Texts, K \in IntSet] == {stringWidth[ls[k]] : k \in K}

\* the display widths of the rendered lines
RenderedWidths ==
    WidthsOf[LinesOf[TextOf[chunks]], 1..Len(LinesOf[TextOf[chunks]])]

\* the display widths of the top border, the separator and the bottom border
BorderWidths ==
    WidthsOf[LinesOf[TextOf[chunks]], {1, 3, Len(LinesOf[TextOf[chunks]])}]

\* the shrink loop's bounds on the widths cw of columns of natural widths nat
WithinFloor[cw \in IntSeq, nat \in IntSeq] ==
    \A k \in DOMAIN cw :
        IF nat[k] >= 10 THEN cw[k] >= 10 /\ cw[k] <= nat[k] ELSE cw[k] = nat[k]

\* the natural column widths of the document's table
NaturalOfDoc == NaturalWidths[HeaderRow[lines], DataRows[lines]]

\* C1: every line emitted for a table (borders, header row, separator, every
\* line of every wrapped data row) has the same display width
C1_EqualLineWidths ==
    (pc = "done" /\ error = "none") => Cardinality(RenderedWidths) <= 1

C3_ShrinkLoop ==
    /\ [](colWidths # <<>> => WithinFloor[colWidths, NaturalOfDoc])
    /\ [][(pc = "shrink" /\ pc' = "shrink") =>
            \A k \in DOMAIN colWidths :
                /\ colWidths[k] >= 10 => colWidths'[k] >= 10
                /\ colWidths[k] < 10 => colWidths'[k] = colWidths[k]]_vars
    /\ (pc = "shrink" ~> pc # "shrink")

\* the loop has run and ended: a narrow column untouched beside a wide one
\* at the floor
C3_Witness ==
    /\ pc = "done"
    /\ Len(colWidths) = 2
    /\ colWidths[1] < 10
    /\ colWidths[2] = 10
    /\ colWidths # NaturalOfDoc

(***************************************************************************)
(* Properties of renderMarkdown (under Spec)                               *)
(***************************************************************************)
\* options.theme is absent or has every role
CompleteTheme == tuiTheme = Undefined \/ Roles \subseteq DOMAIN tuiTheme

\* C4: with a positive terminal width and whatever block kinds the document
\* holds, the render raises no error
C4_NeverRaises == CompleteTheme => error = "none"

\* the indices of the fence lines of the styled scan
StyledFences == {k \in 1..Len(lines) : startsWith[trim[lines[k]], Fence]}

\* the index of the opening fence that is never closed, 0 if there is none
OpenFence == IF Cardinality(StyledFences) % 2 = 1 THEN SetMax[StyledFences] ELSE 0

\* C5: in the styled path, when an opening fence is never closed, the render
\* returns normally and every line after that fence is emitted as a code-block
\* fragment, in document order
C5_UnclosedFenceEmitted ==
    (pc = "done" /\ colors /\ OpenFence # 0) =>
        /\ error = "none"
        /\ Len(chunks) >= Len(lines) - OpenFence
        /\ \A j \in 1..(Len(lines) - OpenFence) :
               chunks[Len(chunks) - (Len(lines) - OpenFence) + j].text
                   = <<" ", " ">> \o lines[OpenFence + j] \o <<LF>>

\* the indices of the lines the simple scan reads inside a code block
SimpleCodeLines ==
    {k \in 1..Len(lines) :
        /\ ~startsWith[lines[k], Fence]
        /\ Cardinality({j \in 1..(k - 1) : startsWith[lines[j], Fence]}) % 2 = 1}

\* C6: with colors disabled, every line that follows an opening fence is in
\* the output as indented text, whether or not a closing fence follows
C6_CodeLinesIndented ==
    (pc = "done" /\ ~colors /\ error = "none") =>
        \A k \in SimpleCodeLines : Occurs[output, 1, indent \o lines[k]] # {}

\* C7: with colors disabled, the returned string holds no escape sequence
C7_NoEscapes ==
    (pc = "done" /\ ~colors) => \A k \in 1..Len(output) : output[k] # ESC

\* C8: rendering with a theme that lacks roles completes
C8_PartialThemeRenders ==
    (pc = "done" /\ colors /\ ~CompleteTheme) => error = "none"

(***************************************************************************)
(* Properties of loadTheme (under SpecTheme)                               *)
(***************************************************************************)
\* the theme data the name stands for: an unknown or absent name selects the
\* opencode theme
Selected == IF themeName \in DOMAIN THEMES THEN THEMES[themeName] ELSE THEMES.opencode

\* C9: loadTheme returns a color for each of the 22 roles, for every name (an
\* unknown or absent name selects the opencode theme) and both modes; a role
\* absent from the theme data is white; loadTheme does not raise
C9_LoadTheme ==
    pc = "done" =>
        /\ error = "none"
        /\ DOMAIN loaded = Roles
        /\ Cardinality(Roles) = 22
        /\ \A role \in Roles :
               /\ loaded[role] \in [r : 0..255, g : 0..255, b : 0..255, a : {255}]
               /\ role \notin DOMAIN Selected.theme => loaded[role] = White
        /\ themeName \notin DOMAIN THEMES =>
               loaded = loadTheme(THEMES, "opencode", mode)

(***************************************************************************)
(* Properties of the serializer and the parser (under SpecAnsi)            *)
(***************************************************************************)
\* C10: a fragment that carries one of the 8 attributes, serialized and
\* parsed, yields a fragment with the same text and that attribute bit set
C10_AttributeRoundTrip ==
    (pc = "done" /\ Len(chunks) = 1 /\ chunks[1].attributes \in AttrBits) =>
        \E j \in 1..Len(styledText) :
            /\ styledText[j].text = chunks[1].text
            /\ HasBit(styledText[j].attributes, chunks[1].attributes)

\* the codes of the eight attributes in the order bold, dim, italic, underline,
\* blink, inverse, hidden, strikethrough; attribute k is bit 2^(k-1)
AttributeOrder == <<"1", "2", "3", "4", "5", "7", "8", "9">>

\* ESC [ code m for every attribute set in a, in that order
ExpectedAttributeCodes[a \in Int] ==
    Concat[[k \in 1..8 |->
               IF (a \div (2 ^ (k - 1))) % 2 = 1
               THEN <<ESC, "[", AttributeOrder[k], "m">> ELSE <<>>]]

\* ESC [ 38 ; 2 ; r ; g ; b m, or with 48, for a color that is set
ExpectedColorCode[c \in Color, kind \in Text] ==
    IF c = Undefined THEN <<>>
    ELSE <<ESC, "[">> \o kind \o <<";", "2", ";">> \o NumberToString(c.r) \o <<";">>
           \o NumberToString(c.g) \o <<";">> \o NumberToString(c.b) \o <<"m">>

\* what one fragment is written as
ExpectedFragment[c \in ChunkT] ==
    LET codes == ExpectedAttributeCodes[c.attributes]
                   \o ExpectedColorCode[c.fg, <<"3", "8">>]
                   \o ExpectedColorCode[c.bg, <<"4", "8">>]
    IN IF codes = <<>> THEN c.text ELSE codes \o c.text \o <<ESC, "[", "0", "m">>

\* C11: textChunksToAnsi writes, per fragment and in this order, the codes of
\* the set attributes (bold, dim, italic, underline, blink, inverse, hidden,
\* strikethrough), the 24-bit foreground code if a foreground is set, the
\* 24-bit background code if a background is set, the text, and a reset code
\* exactly when a code was written; a fragment without attribute and color
\* is its bare text
C11_SerializedInOrder ==
    (call = "ansiToStyledText" /\ pc # "textChunksToAnsi") =>
        output = Concat[[k \in 1..Len(chunks) |-> ExpectedFragment[chunks[k]]]]

\* a fragment with every attribute and both colors, followed by a bare one
C11_Witness ==
    /\ call = "ansiToStyledText"
    /\ pc = "done"
    /\ Len(chunks) = 2
    /\ chunks[1].attributes = 255
    /\ chunks[1].fg # Undefined
    /\ chunks[1].bg # Undefined
    /\ chunks[2].attributes = 0
    /\ chunks[2].fg = Undefined
    /\ chunks[2].bg = Undefined

(***************************************************************************)
(* Properties of the inline tokenizer (under SpecInline)                   *)
(***************************************************************************)
\* the fragment of a text, none for the empty text
Fragment(t, color, attrs) ==
    IF t = <<>> THEN <<>>
    ELSE <<[text |-> t, fg |-> color, bg |-> Undefined, attributes |-> attrs]>>

\* the fragments of before "**" pre "*" mid "*" post "**" after: the bold
\* span as bold, bold and italic, bold, between the surrounding plain text
NestedExpected(n) ==
    Fragment(n[1], argColor, argAttrs)
      \o Fragment(n[2], theme.markdownStrong, 1)
      \o Fragment(n[3], theme.markdownStrong, 1 + 4)
      \o Fragment(n[4], theme.markdownStrong, 1)
      \o Fragment(n[5], argColor, argAttrs)

\* C12: a bold span whose content holds one italic span is emitted as up to
\* three fragments, the text before the italic span as bold, its content as
\* bold and italic, the text after it as bold, without delimiter characters;
\* "**bold *and italic* text**" gives bold("bold "), bold+italic("and
\* italic"), bold(" text")
C12_NestedItalic ==
    (call = "renderInlineThemedWithDefault" /\ pc = "done") =>
        \A n \in NestedParams :
            str = BoldAroundItalic(n[1], n[2], n[3], n[4], n[5]) =>
                chunks = NestedExpected(n)

(***************************************************************************)
(* Properties of stripAnsi and visibleWidth (under SpecStrip)              *)
(***************************************************************************)
\* C13: the width of a text is the width of the text with its styling
\* stripped: visibleWidth(stripAnsi(str)) = visibleWidth(str)
C13_WidthOfStripped ==
    (call = "visibleWidth" /\ pc = "done") => strippedVisible = visible

(***************************************************************************)
(* Properties of the column sizing (under SpecTable)                       *)
(***************************************************************************)
\* the sum of (width + 3) over the first n columns
SumWithPadding[cw \in IntSeq, n \in Int] ==
    IF n = 0 THEN 0 ELSE SumWithPadding[cw, n - 1] + cw[n] + 3

\* total = 1 + sum over columns of (width + 3)
TotalWidth[cw \in IntSeq] == 1 + SumWithPadding[cw, Len(cw)]

\* the five lines of "| a | b |" over "| 1 | 2 |" with two columns of width 1
SmallTableLines ==
    << <<"u250c", "u2500", "u2500", "u2500", "u252c", "u2500", "u2500", "u2500", "u2510">>,
       <<"u2502", " ", "a", " ", "u2502", " ", "b", " ", "u2502">>,
       <<"u251c", "u2500", "u2500", "u2500", "u253c", "u2500", "u2500", "u2500", "u2524">>,
       <<"u2502", " ", "1", " ", "u2502", " ", "2", " ", "u2502">>,
       <<"u2514", "u2500", "u2500", "u2500", "u2534", "u2500", "u2500", "u2500", "u2518">> >>

\* C14: with budget = cols - 4 and total = 1 + sum(width + 3): when the
\* natural total is within the budget every final width is the natural width
\* (the floor of 10 is no minimum: "| a | b |" over "| 1 | 2 |" at 80 columns
\* gives two columns of width 1 and five lines); otherwise every step lowers
\* one currently widest column by exactly 1 and leaves the others, and after
\* the loop the total is within the budget or no column is wider than 10
C14_FitToBudget ==
    /\ [](colWidths # <<>> /\ TotalWidth[NaturalOfDoc] <= cols - 4
            => colWidths = NaturalOfDoc)
    /\ [][(pc = "shrink" /\ pc' = "shrink") =>
            \E k \in DOMAIN colWidths :
                /\ \A j \in DOMAIN colWidths : colWidths[j] <= colWidths[k]
                /\ colWidths' = [colWidths EXCEPT ![k] = colWidths[k] - 1]]_vars
    /\ [](colWidths # <<>> /\ pc # "shrink"
            => \/ TotalWidth[colWidths] <= cols - 4
               \/ \A k \in DOMAIN colWidths : colWidths[k] <= 10)
    /\ [](pc = "done" /\ lines = SmallTable /\ cols = 80
            => colWidths = <<1, 1>> /\ LinesOf[TextOf[chunks]] = SmallTableLines)

\* the loop has run and ended at the floor, above the budget
C14_Witness ==
    /\ pc = "done"
    /\ colWidths # NaturalOfDoc
    /\ TotalWidth[colWidths] > cols - 4
    /\ \A k \in DOMAIN colWidths : colWidths[k] <= 10

(***************************************************************************)
(* Properties of the styled line scan (under Spec)                         *)
(***************************************************************************)
ThreeBackticks == <<BT, BT, BT>>

\* line k of ls is a fence line
IsFenceLine[ls \in Texts, k \in Int] == startsWith[trim[ls[k]], ThreeBackticks]

\* the fence lines before line k
FencesBefore[ls \in Texts, k \in Int] == {j \in 1..(k - 1) : IsFenceLine[ls, j]}

\* line k of ls stands inside a code fence
InsideFence[ls \in Texts, k \in Int] ==
    ~IsFenceLine[ls, k] /\ Cardinality(FencesBefore[ls, k]) % 2 = 1

\* the language tag of the fence that line k stands in
FenceLanguage[ls \in Texts, k \in Int] ==
    trim[From[trim[ls[SetMax[FencesBefore[ls, k]]]], 4]]

\* line k of ls is a pipe-delimited row outside code fences
IsPipeRow[ls \in Texts, k \in Int] ==
    /\ k \in 1..Len(ls)
    /\ ~IsFenceLine[ls, k]
    /\ ~InsideFence[ls, k]
    /\ startsWith[trim[ls[k]], <<"|">>]
    /\ endsWith[trim[ls[k]], <<"|">>]

\* a pipe row with no pipe row before or after it
IsLoneRow[ls \in Texts, k \in Int] ==
    IsPipeRow[ls, k] /\ ~IsPipeRow[ls, k - 1] /\ ~IsPipeRow[ls, k + 1]

\* the document without its lone rows
WithoutLoneRows[ls \in Texts] ==
    LET keep == Sorted[{k \in 1..Len(ls) : ~IsLoneRow[ls, k]}]
    IN [n \in 1..Len(keep) |-> ls[keep[n]]]

\* the fragments of a document that has no pipe row outside code fences:
\* those of its lines, one line after the other
LineByLine[ls \in Texts, c \in Int, th \in ThemeT] ==
    ConcatChunks[[k \in 1..Len(ls) |->
        IF IsFenceLine[ls, k] THEN <<>>
        ELSE IF InsideFence[ls, k] THEN CodeLine[ls[k], FenceLanguage[ls, k], th]
        ELSE IF ~headerMatch[trim[ls[k]]].ok /\ isRule[trim[ls[k]]] THEN RuleLine[c, th]
        ELSE BlockLine[ls[k], th]]]

\* C15: a table group of a single pipe row is not rendered: the call of
\* renderTableThemed for it appends no fragment, and the fragments of the
\* document are those of the document without that row
C15_LoneRowSkipped ==
    /\ [][(pc = "renderTableThemed" /\ Len(tableLines) < 2) => chunks' = chunks]_vars
    /\ [](pc = "done" /\ colors /\ error = "none"
             /\ (\A k \in 1..Len(lines) : IsPipeRow[lines, k] => IsLoneRow[lines, k])
            => chunks = LineByLine[WithoutLoneRows[lines], cols, theme])

\* a lone pipe row between two other lines, rendered
C15_Witness ==
    /\ pc = "done"
    /\ colors
    /\ error = "none"
    /\ Len(lines) = 3
    /\ IsLoneRow[lines, 2]
    /\ chunks # <<>>
    /\ colWidths = <<>>

(***************************************************************************)
(* Properties of ansiToStyledText (under SpecParse)                        *)
(***************************************************************************)
\* the codes that stand alone: reset, the attribute codes, the 8 and 16
\* color codes, default foreground and default background
SingleCodes ==
    {0, 1, 2, 3, 4, 5, 7, 8, 9, 39, 49}
        \cup (30..37) \cup (40..47) \cup (90..97) \cup (100..107)

\* the code at k opens a direct color (38;2 / 48;2) or a palette color
\* (38;5 / 48;5)
OpensColor(codes, k, v) ==
    codes[k] \in {38, 48} /\ (k + 1) \in DOMAIN codes /\ codes[k + 1] = v

\* the code at k is one of the recognized codes
IsRecognized(codes, k) ==
    codes[k] \in SingleCodes \/ OpensColor(codes, k, 2) \/ OpensColor(codes, k, 5)

\* the positions of a code and of its parameters
CodeSpan(codes, k) ==
    IF OpensColor(codes, k, 2) THEN 5 ELSE IF OpensColor(codes, k, 5) THEN 3 ELSE 1

\* the positions from k on at which a code stands (not a parameter)
CodePositions[codes \in IntSeq, k \in Int] ==
    IF k > Len(codes) THEN {}
    ELSE {k} \cup CodePositions[codes, k + CodeSpan(codes, k)]

\* the positions of the codes that are not recognized
IgnoredPositions[codes \in IntSeq] ==
    {k \in CodePositions[codes, 1] : ~IsRecognized(codes, k)}

\* the sequence of codes without those that are not recognized
RecognizedOnly[codes \in IntSeq] ==
    LET keep == Sorted[(1..Len(codes)) \ IgnoredPositions[codes]]
    IN [n \in 1..Len(keep) |-> codes[keep[n]]]

\* the codes of the escape sequence that the next iteration handles
NextCodes ==
    LET p == NextSgr[output, lastIndex]
    IN Codes[Slice[output, p + 2, SgrEnd[output, p] - 1]]

\* the state that the codes cs lead to from the current one
StateAfter(cs) ==
    ApplyCodes[cs, [fg |-> fg, bg |-> bg, attributes |-> attributes, i |-> 1]]

\* C16: a code that is not recognized is ignored: an escape sequence leads
\* to the foreground, background and attributes that the sequence without
\* its unrecognized codes leads to, a sequence of unrecognized codes only
\* changes none of them, and the parser never raises
C16_UnrecognizedIgnored ==
    /\ [][(pc = "ansiToStyledText" /\ NextSgr[output, lastIndex] # 0) =>
            /\ fg' = StateAfter(RecognizedOnly[NextCodes]).fg
            /\ bg' = StateAfter(RecognizedOnly[NextCodes]).bg
            /\ attributes' = StateAfter(RecognizedOnly[NextCodes]).attributes
            /\ (RecognizedOnly[NextCodes] = <<>> =>
                    fg' = fg /\ bg' = bg /\ attributes' = attributes)]_vars
    /\ [](call = "ansiToStyledText" => error = "none")

\* "x", ESC [ 6;48;2;6;6;6;6 m, "y": the codes 6 around a direct background
C16_Witness ==
    /\ pc = "done"
    /\ output = <<"x">> \o Sgr(<<"6", ";", "4", "8", ";", "2", ";", "6", ";", "6",
                                 ";", "6", ";", "6">>) \o <<"y">>
    /\ IgnoredPositions[<<6, 48, 2, 6, 6, 6, 6>>] = {1, 7}
    /\ bg = [r |-> 6, g |-> 6, b |-> 6, a |-> 255]
    /\ fg = Undefined
    /\ attributes = 0
    /\ Len(styledText) = 2

(***************************************************************************)
(* Unmatched delimiters in the inline tokenizer (under SpecInline)         *)
(***************************************************************************)
\* an opening and a closing d in s with at least `least` characters between
HasPair(s, d, least) ==
    \E p \in 1..Len(s), q \in 1..Len(s) :
        HasAt[s, p, d] /\ HasAt[s, q, d] /\ q >= p + Len(d) + least

\* `code`: two backticks around one or more characters that are no backtick
HasCodeSpan(s) ==
    \E p \in 1..Len(s), q \in 1..Len(s) :
        /\ s[p] = BT
        /\ s[q] = BT
        /\ q >= p + 2
        /\ \A k \in (p + 1)..(q - 1) : s[k] # BT

\* s[from..to] is a url: not empty, without ")" and without white space
IsUrl(s, from, to) ==
    to >= from /\ \A k \in from..to : s[k] # ")" /\ ~IsSpace(s[k])

\* s[from..to] is white space and a title in double quotes
IsTitle(s, from, to) ==
    \E t \in (from + 1)..(to - 1) :
        /\ \A k \in from..(t - 1) : IsSpace(s[k])
        /\ s[t] = DQ
        /\ s[to] = DQ
        /\ \A k \in (t + 1)..(to - 1) : s[k] # DQ

\* [text](url) or [text](url "title")
HasLink(s) ==
    \E p \in 1..Len(s), q \in 1..Len(s), u \in 1..Len(s), e \in 1..Len(s) :
        /\ s[p] = "["
        /\ s[q] = "]"
        /\ q >= p + 2
        /\ \A k \in (p + 1)..(q - 1) : s[k] # "]"
        /\ HasAt[s, q + 1, <<"(">>]
        /\ IsUrl(s, q + 2, u)
        /\ s[e] = ")"
        /\ (e = u + 1 \/ IsTitle(s, u + 1, e - 1))

\* s holds a complete inline construct: two delimiters of one kind around a
\* content. A pair of single asterisks around one or more characters
\* covers the pairs of "**" and of "***" as well
HasConstruct(s) ==
    \/ HasPair(s, <<"*">>, 1)
    \/ HasPair(s, <<"_", "_", "_">>, 0)
    \/ HasCodeSpan(s)
    \/ HasLink(s)
    \/ HasPair(s, <<"~", "~">>, 1)

\* C17: a line without a complete inline construct comes out as its own
\* text in one fragment with the default color and the default attributes
\* (no fragment for the empty line), and no line makes the tokenizer raise
C17_UnmatchedLiteral ==
    (call = "renderInlineThemedWithDefault" /\ pc = "done") =>
        /\ error = "none"
        /\ (~HasConstruct(str) =>
               chunks = IF str = <<>> THEN <<>>
                        ELSE <<[text |-> str, fg |-> argColor, bg |-> Undefined,
                                attributes |-> argAttrs]>>)

\* an unclosed "**", an unclosed backtick and an unclosed "~~" in a heading
C17_Witness ==
    /\ pc = "done"
    /\ str = <<"*", "*", "a", BT, "~">>
    /\ ~HasConstruct(str)
    /\ argAttrs = Attr.BOLD
    /\ Len(chunks) = 1
    /\ chunks[1].text = str

(***************************************************************************)
(* Table groups in the styled line scan (under Spec)                       *)
(***************************************************************************)
\* line k ends a maximal run of pipe rows outside code fences
IsRunEnd[ls \in Texts, k \in Int] == IsPipeRow[ls, k] /\ ~IsPipeRow[ls, k + 1]

\* the first line of the run of pipe rows that line k stands in
RunStart[ls \in Texts, k \in Int] ==
    SetMax[{j \in 1..k : IsPipeRow[ls, j] /\ ~IsPipeRow[ls, j - 1]}]

\* the lines of the run from its first line up to line k, trimmed, in
\* document order
RunUpTo[ls \in Texts, k \in Int] ==
    [n \in 1..(k - RunStart[ls, k] + 1) |-> trim[ls[RunStart[ls, k] + n - 1]]]

\* the table layout is running
InTableLayout == pc \in {"renderTableThemed", "shrink"}

\* the styled line scan is running
InStyledScan == pc = "scan" \/ InTableLayout

\* C18: every maximal run of pipe rows outside code fences is handed to the
\* table layout once, as the group of exactly its lines in document order:
\* the layout runs only at the last line of a run and with the lines of that
\* run, the scan passes the last line of a run only through the layout and
\* the layout is entered from the scan and left with the next line, and
\* when the scan is at a line that is no pipe row or at the end of the
\* document the table flag is off and the buffer is empty
C18_RunsHandedOnce ==
    /\ [](InTableLayout =>
             /\ IsRunEnd[lines, i]
             /\ tableLines = RunUpTo[lines, i]
             /\ inTable)
    /\ [][InStyledScan =>
            /\ (i' # i => i' = i + 1)
            /\ (i' # i /\ IsRunEnd[lines, i] => InTableLayout)
            /\ (InTableLayout' /\ ~InTableLayout => pc = "scan" /\ i' = i)
            /\ (pc = "renderTableThemed" => pc' \in {"scan", "shrink"})
            /\ (pc = "shrink" => pc' \in {"scan", "shrink"})
            /\ (InTableLayout /\ pc' = "scan" => i' = i + 1)]_vars
    /\ [](pc = "scan" /\ IsPipeRow[lines, i] /\ RunStart[lines, i] < i =>
             inTable /\ tableLines = RunUpTo[lines, i - 1])
    /\ [](pc = "scan" /\ ~IsPipeRow[lines, i] => ~inTable /\ tableLines = <<>>)
    /\ [](pc \in {"textChunksToAnsi", "done"} /\ colors =>
             ~inTable /\ tableLines = <<>>)

\* a run of two pipe rows after another line is handed to the table layout
C18_Witness ==
    /\ pc = "renderTableThemed"
    /\ i = 3
    /\ ~IsPipeRow[lines, 1]
    /\ lines[2] # lines[3]
    /\ tableLines = <<lines[2], lines[3]>>

(***************************************************************************)
(* Code fences in the styled line scan (under Spec)                        *)
(***************************************************************************)
\* the scan is about to process line i
AtLine == pc = "scan" /\ i <= Len(lines)

\* chunks' is chunks and one more fragment with the text t
OneMoreFragment(t) ==
    /\ Len(chunks') = Len(chunks) + 1
    /\ SubSeq(chunks', 1, Len(chunks)) = chunks
    /\ chunks'[Len(chunks')].text = t

\* C19: a line whose trimmed text starts with three backticks flips the
\* code-fence state and emits no fragment; inside a fence every other line
\* emits exactly one fragment with the text of two spaces, the line as it
\* is and a newline, and no table is started
C19_FencesAndCodeLines ==
    /\ [][AtLine /\ startsWith[trim[lines[i]], <<BT, BT, BT>>] =>
            /\ inCodeBlock' = ~inCodeBlock
            /\ chunks' = chunks
            /\ i' = i + 1
            /\ pc' = "scan"]_vars
    /\ [][AtLine /\ ~startsWith[trim[lines[i]], <<BT, BT, BT>>] /\ inCodeBlock =>
            /\ OneMoreFragment(<<" ", " ">> \o lines[i] \o <<LF>>)
            /\ inCodeBlock'
            /\ ~inTable' /\ tableLines' = <<>>
            /\ i' = i + 1
            /\ pc' = "scan"]_vars
    /\ [](AtLine => (inCodeBlock <=> Cardinality(FencesBefore[lines, i]) % 2 = 1))
    /\ [](colors /\ inCodeBlock => ~inTable /\ tableLines = <<>> /\ ~InTableLayout)

\* a pipe row inside a fence has become one code fragment
C19_Witness ==
    /\ pc = "scan"
    /\ i = 3
    /\ IsFenceLine[lines, 1]
    /\ isTableLine[trim[lines[2]]]
    /\ inCodeBlock
    /\ ~inTable
    /\ Len(chunks) = 1
    /\ chunks[1].text = <<" ", " ">> \o lines[2] \o <<LF>>

(***************************************************************************)
(* Properties of parseMarkdownSegments (under SpecSegments)                *)
(***************************************************************************)
\* the fence lines of the document, in order
FencePositions[ls \in Texts] == Sorted[{k \in 1..Len(ls) : IsFenceLine[ls, k]}]

\* the first and the last line of block m: the lines between fence line
\* m - 1 (or the start) and fence line m (or the end)
BlockFirst(ls, m) == IF m = 1 THEN 1 ELSE FencePositions[ls][m - 1] + 1

BlockLast(ls, m) ==
    IF m > Len(FencePositions[ls]) THEN Len(ls) ELSE FencePositions[ls][m] - 1

\* the lines of block m, in document order
BlockLines(ls, m) ==
    [n \in 1..(BlockLast(ls, m) - BlockFirst(ls, m) + 1) |->
        ls[BlockFirst(ls, m) + n - 1]]

\* the segments of block m: blocks with an odd number are text and give a
\* segment when they have lines; blocks with an even number are code and give
\* a segment when they are closed by a fence or have lines
SegmentsOfBlock(ls, m) ==
    IF m % 2 = 1
    THEN IF BlockLines(ls, m) # <<>>
         THEN <<[type |-> "text", content |-> Join[BlockLines(ls, m), <<LF>>]]>>
         ELSE <<>>
    ELSE IF m <= Len(FencePositions[ls]) \/ BlockLines(ls, m) # <<>>
         THEN <<[type |-> "code", content |-> Join[BlockLines(ls, m), <<LF>>]]>>
         ELSE <<>>

\* the segments of the blocks 1..m
SegmentsUpTo[ls \in Texts, m \in Int] ==
    IF m = 0 THEN <<>> ELSE SegmentsUpTo[ls, m - 1] \o SegmentsOfBlock(ls, m)

\* type and content of the segments returned
TypeAndContent ==
    [k \in 1..Len(segments) |->
        [type |-> segments[k].type, content |-> segments[k].content]]

\* C20: the segments returned are those of the blocks of the document in
\* document order: every line that is no fence line is in the segment of its
\* block, a code segment between fences and a text segment otherwise, fence
\* lines are in no segment, and no two text segments are adjacent
C20_SegmentsKeepContent ==
    (call = "parseMarkdownSegments" /\ pc = "done") =>
        /\ TypeAndContent = SegmentsUpTo[lines, Len(FencePositions[lines]) + 1]
        /\ \A k \in 1..(Len(segments) - 1) :
               ~(segments[k].type = "text" /\ segments[k + 1].type = "text")

\* a text line, an opening fence and a line of an unclosed code block
C20_Witness ==
    /\ pc = "done"
    /\ Len(lines) = 3
    /\ IsFenceLine[lines, 2]
    /\ Len(segments) = 2
    /\ segments[1] = [type |-> "text", content |-> lines[1]]
    /\ segments[2].type = "code"
    /\ segments[2].content = lines[3]
    /\ lines[3] # <<>>

(***************************************************************************)
(* The text and the styles ansiToStyledText returns (under SpecParse)      *)
(***************************************************************************)
\* the positions of s at which an escape sequence ESC [ digits-and-semicolons m
\* starts, in order
SequenceStarts[s \in Text] == Sorted[{p \in 1..Len(s) : SgrEnd[s, p] # 0}]

\* the positions of s that belong to an escape sequence
InSequence[s \in Text] ==
    {k \in 1..Len(s) : \E p \in 1..k : SgrEnd[s, p] # 0 /\ k <= SgrEnd[s, p]}

\* s with every escape sequence removed
WithoutSequences[s \in Text] ==
    LET keep == Sorted[(1..Len(s)) \ InSequence[s]]
    IN [n \in 1..Len(keep) |-> s[keep[n]]]

\* the first positions of the stretches of text between escape sequences
TextStarts[s \in Text] ==
    Sorted[{q \in (1..Len(s)) \ InSequence[s] : q = 1 \/ (q - 1) \in InSequence[s]}]

\* the last position of the stretch of text that starts at q
TextEnd[s \in Text, q \in Int] ==
    SetMin[{k \in q..Len(s) : k = Len(s) \/ (k + 1) \in InSequence[s]}]

\* no foreground, no background, no attributes
BlankState == [fg |-> Undefined, bg |-> Undefined, attributes |-> 0, i |-> 1]

\* the style in effect after the first n escape sequences of s
StyleAfter[s \in Text, n \in Int] ==
    IF n = 0 THEN BlankState
    ELSE LET p == SequenceStarts[s][n]
         IN ApplyCodes[Codes[Slice[s, p + 2, SgrEnd[s, p] - 1]],
                       [StyleAfter[s, n - 1] EXCEPT !.i = 1]]

\* the fragment of the stretch of text that starts at q
StyledStretch(s, q) ==
    LET st == StyleAfter[s, Cardinality({p \in 1..q : SgrEnd[s, p] # 0})]
    IN [text |-> Slice[s, q, TextEnd[s, q]], fg |-> st.fg, bg |-> st.bg,
        attributes |-> st.attributes]

\* the last position at which a reset code stands, 0 if there is none
LastReset(codes) ==
    SetMax[{0} \cup {k \in CodePositions[codes, 1] : codes[k] = 0}]

\* C21: ansiToStyledText keeps the visible text: no fragment is empty, the
\* texts of the fragments in order are the input without its escape
\* sequences, every fragment has the style in effect after the escape
\* sequences in front of its text, and after a reset code the style is that
\* of the codes behind it applied to no foreground, no background and no
\* attributes
C21_VisibleTextKept ==
    /\ [](call = "ansiToStyledText" =>
             \A k \in 1..Len(styledText) : styledText[k].text # <<>>)
    /\ [](call = "ansiToStyledText" /\ pc = "done" =>
             /\ Concat[[k \in 1..Len(styledText) |-> styledText[k].text]]
                    = WithoutSequences[output]
             /\ styledText = [k \in 1..Len(TextStarts[output]) |->
                                 StyledStretch(output, TextStarts[output][k])])
    /\ [][(pc = "ansiToStyledText" /\ NextSgr[output, lastIndex] # 0
               /\ LastReset(NextCodes) # 0) =>
            LET after == ApplyCodes[NextCodes,
                                    [BlankState EXCEPT !.i = LastReset(NextCodes) + 1]]
            IN /\ fg' = after.fg
               /\ bg' = after.bg
               /\ attributes' = after.attributes
               /\ (LastReset(NextCodes) = Len(NextCodes) =>
                      fg' = Undefined /\ bg' = Undefined /\ attributes' = 0)]_vars

\* bold red on green "x", a reset, "y" without style
C21_Witness ==
    /\ pc = "done"
    /\ output = StyledPrefix \o <<"x">> \o Sgr(<<>>) \o <<"y">>
    /\ Len(styledText) = 2
    /\ styledText[1].text = <<"x">>
    /\ styledText[1].attributes = Attr.BOLD
    /\ styledText[1].fg # Undefined
    /\ styledText[1].bg # Undefined
    /\ styledText[2] = [text |-> <<"y">>, fg |-> Undefined, bg |-> Undefined,
                         attributes |-> 0]

==========================================================================
